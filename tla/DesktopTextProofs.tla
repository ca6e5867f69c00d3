-------------------------- MODULE DesktopTextProofs --------------------------
(***************************************************************************)
(* Nothing typed is in two places, and nothing typed is lost.  Every text  *)
(* has a number, and a step either leaves the numbers where they are or    *)
(* moves some of them from one place to another: from the queue to whoever *)
(* ended the turn, from there to a delivery, from there to the backend or  *)
(* back to the composer.                                                   *)
(***************************************************************************)
EXTENDS DesktopTypeProofs, FiniteSetTheorems

USE DEF viewVars, connVars, turnVars, historyVars, textVars

(* The numbers that the records of a set carry, and that each is in one. *)
Ids(S)  == {x.text.id : x \in S} \ {0}
Once(S) == \A x, y \in S : x.text.id = y.text.id /\ x.text.id # 0 => x = y

Place == {"queue", "window", "pumps", "stops", "delivers", "answers", "rest"}

(* The numbers in each place. *)
At == [place \in Place |->
         CASE place = "queue"    -> QueuedIds
           [] place = "window"   -> Ids({window})
           [] place = "pumps"    -> Ids(pumps)
           [] place = "stops"    -> Ids(stops)
           [] place = "delivers" -> Ids(delivers)
           [] place = "answers"  -> Ids(answers)
           [] place = "rest"     -> Resting \ {0}]

(* A place holds a number once. *)
QueueOnce   == \A m, n \in DOMAIN queue : queue[m].id = queue[n].id => m = n
SettledOnce == \A a, b \in settled : a[1] = b[1] /\ a[1] # 0 => a = b

EachOnce ==
  /\ QueueOnce /\ SettledOnce
  /\ Once(pumps) /\ Once(stops) /\ Once(delivers) /\ Once(answers)

(* Two places hold no number in common. *)
Apart == \A a, b \in Place : a # b => At[a] \cap At[b] = {}

(* Numbers are given out one after the other. *)
Numbered == \A place \in Place : At[place] \subseteq 1 .. typed

(* Whoever has no text to send, or to answer with, has none at all. *)
HandsEmpty ==
  /\ window.pc \notin {"send", "answer"} => window.text = NoText
  /\ \A p \in pumps : p.pc # "send" => p.text = NoText
  /\ \A t \in stops : t.pc # "send" => t.text = NoText

TextInv == EachOnce /\ Apart /\ Numbered /\ HandsEmpty

-----------------------------------------------------------------------------
(* What a step does to the numbers. *)

NumbersStay == UNCHANGED typed /\ \A p \in Place : At'[p] = At[p]

NumbersMove(X, from, to) ==
  /\ UNCHANGED typed
  /\ from # to /\ X \subseteq At[from]
  /\ \A p \in Place :
       At'[p] = IF p = from THEN At[p] \ X ELSE IF p = to THEN At[p] \cup X ELSE At[p]

NumberIsNew(to) ==
  /\ typed' = typed + 1
  /\ \A p \in Place : At'[p] = IF p = to THEN At[p] \cup {typed + 1} ELSE At[p]

(* The answer to a question that has gone: its text is dropped (send.rs:356). *)
AnswerIsLate == WindowAnswers /\ clarify = None

(* An answer whose request fails: nobody takes its text back (send.rs:377).  *)
AnswerFails == \E a \in answers : AnswerEnds(a) /\ RequestFails(a.inst)

NumberGoes == UNCHANGED typed /\ \A p \in Place : At'[p] \subseteq At[p]

TextStep ==
  \/ NumbersStay
  \/ \E X : \E from, to \in Place : NumbersMove(X, from, to)
  \/ \E to \in Place : NumberIsNew(to)
  \/ (AnswerIsLate \/ AnswerFails) /\ NumberGoes

(* Each of these keeps the places apart and the numbers in order. *)
LEMMA ApartAfterStep ==
  ASSUME TypeOK, Apart, Numbered, TextStep
  PROVE  Apart' /\ Numbered'
<1>0. typed \in Nat
  BY DEF TypeOK, HistoryTypeOK
<1>1. CASE NumbersStay
  BY <1>1 DEF NumbersStay, Apart, Numbered
<1>2. ASSUME NEW X, NEW from \in Place, NEW to \in Place, NumbersMove(X, from, to)
      PROVE  Apart' /\ Numbered'
  <2>1. ASSUME NEW a \in Place, NEW b \in Place, a # b, NEW x \in At'[a], x \in At'[b]
        PROVE  FALSE
    BY <1>2, <2>1 DEF NumbersMove, Apart
  <2>2. Apart'
    BY <2>1 DEF Apart
  <2>3. Numbered'
    BY <1>2 DEF NumbersMove, Numbered
  <2>4. QED
    BY <2>2, <2>3
<1>3. ASSUME NEW to \in Place, NumberIsNew(to)
      PROVE  Apart' /\ Numbered'
  <2>1. \A p \in Place : typed + 1 \notin At[p]
    BY <1>0 DEF Numbered
  <2>2. Apart'
    BY <1>3, <2>1 DEF NumberIsNew, Apart
  <2>3. Numbered'
    <3>1. \A n \in 1 .. typed : n \in 1 .. typed + 1
      BY <1>0
    <3>2. typed + 1 \in 1 .. typed + 1
      BY <1>0
    <3>3. QED
      BY <1>3, <3>1, <3>2 DEF NumberIsNew, Numbered
  <2>4. QED
    BY <2>2, <2>3
<1>4. CASE (AnswerIsLate \/ AnswerFails) /\ NumberGoes
  BY <1>4 DEF NumberGoes, Apart, Numbered
<1>5. QED
  BY <1>1, <1>2, <1>3, <1>4 DEF TextStep

-----------------------------------------------------------------------------
(* Sets of records with a text. *)

(* One record takes the place of another with the same text ... *)
LEMMA Replaced ==
  ASSUME NEW S, NEW x \in S, NEW y, y.text.id = x.text.id, Once(S)
  PROVE  LET T == (S \ {x}) \cup {y} IN Ids(T) = Ids(S) /\ Once(T)
<1> DEFINE T == (S \ {x}) \cup {y}
<1>1. Ids(T) = Ids(S)
  BY DEF Ids
<1>2. Once(T)
  BY DEF Once
<1>3. QED
  BY <1>1, <1>2

(* ... or gives its text away ... *)
LEMMA Emptied ==
  ASSUME NEW S, NEW x \in S, NEW y, y.text.id = 0, Once(S)
  PROVE  LET T == (S \ {x}) \cup {y} IN Ids(T) = Ids(S) \ {x.text.id} /\ Once(T)
<1> DEFINE T == (S \ {x}) \cup {y}
<1>1. Ids(T) = Ids(S) \ {x.text.id}
  BY DEF Ids, Once
<1>2. Once(T)
  BY DEF Once
<1>3. QED
  BY <1>1, <1>2

(* ... or receives one that nobody in the set has. *)
LEMMA Filled ==
  ASSUME NEW S, NEW x \in S, NEW y, x.text.id = 0, y.text.id \notin Ids(S), Once(S)
  PROVE  LET T == (S \ {x}) \cup {y} IN Ids(T) = Ids(S) \cup ({y.text.id} \ {0}) /\ Once(T)
<1> DEFINE T == (S \ {x}) \cup {y}
<1>1. Ids(T) = Ids(S) \cup ({y.text.id} \ {0})
  BY DEF Ids
<1>2. Once(T)
  BY DEF Once, Ids
<1>3. QED
  BY <1>1, <1>2

(* A record leaves the set. *)
LEMMA Removed ==
  ASSUME NEW S, NEW x \in S, Once(S)
  PROVE  Ids(S \ {x}) = Ids(S) \ {x.text.id} /\ Once(S \ {x})
<1>1. Ids(S \ {x}) = Ids(S) \ {x.text.id}
  BY DEF Ids, Once
<1>2. Once(S \ {x})
  BY DEF Once
<1>3. QED
  BY <1>1, <1>2

(* A record joins it. *)
LEMMA Added ==
  ASSUME NEW S, NEW y, y.text.id \notin Ids(S), Once(S)
  PROVE  Ids(S \cup {y}) = Ids(S) \cup ({y.text.id} \ {0}) /\ Once(S \cup {y})
<1>1. Ids(S \cup {y}) = Ids(S) \cup ({y.text.id} \ {0})
  BY DEF Ids
<1>2. Once(S \cup {y})
  BY DEF Once, Ids
<1>3. QED
  BY <1>1, <1>2

-----------------------------------------------------------------------------
(* The queue and the resting places. *)

LEMMA QueueIs ==
  ASSUME TypeOK
  PROVE  /\ queue \in Seq(Text) /\ Len(queue) \in Nat /\ DOMAIN queue = 1 .. Len(queue)
         /\ \A n \in DOMAIN queue : queue[n] \in Text /\ queue[n].id \in Nat
<1>1. queue \in Seq(Text)
  BY DEF TypeOK, TurnTypeOK
<1>2. \A n \in DOMAIN queue : queue[n] \in Text
  BY <1>1
<1>3. \A t \in Text : t.id \in Nat
  BY DEF Text
<1>4. Len(queue) \in Nat /\ DOMAIN queue = 1 .. Len(queue)
  BY <1>1
<1>5. QED
  BY <1>1, <1>2, <1>3, <1>4

(* The first prompt is taken out. *)
LEMMA QueueAfterTail ==
  ASSUME TypeOK, QueueOnce, queue # <<>>, queue' = Tail(queue)
  PROVE  /\ QueuedIds' = QueuedIds \ {Head(queue).id} /\ QueueOnce'
         /\ Head(queue).id \in QueuedIds /\ Head(queue) \in Text
<1>1. /\ Len(queue) \in Nat /\ Len(queue) > 0 /\ Head(queue) = queue[1]
      /\ DOMAIN queue' = 1 .. Len(queue) - 1
      /\ \A n \in 1 .. Len(queue) - 1 : queue'[n] = queue[n + 1]
  BY QueueIs
<1>2. QueueOnce'
  <2>1. ASSUME NEW m \in DOMAIN queue', NEW n \in DOMAIN queue', queue'[m].id = queue'[n].id
        PROVE  m = n
    <3>1. m + 1 \in DOMAIN queue /\ n + 1 \in DOMAIN queue
      BY <1>1, QueueIs
    <3>2. m + 1 = n + 1
      BY <1>1, <2>1, <3>1 DEF QueueOnce
    <3>3. QED
      BY <1>1, <3>2
  <2>2. QED
    BY <2>1 DEF QueueOnce
<1>3. ASSUME NEW n \in DOMAIN queue'
      PROVE  queue'[n].id \in QueuedIds \ {Head(queue).id}
  <2>1. n + 1 \in DOMAIN queue /\ n + 1 # 1 /\ 1 \in DOMAIN queue
    BY <1>1, QueueIs
  <2>2. QED
    BY <1>1, <2>1 DEF QueuedIds, QueueOnce
<1>4. ASSUME NEW n \in DOMAIN queue, queue[n].id # Head(queue).id
      PROVE  queue[n].id \in QueuedIds'
  <2>1. n - 1 \in DOMAIN queue' /\ (n - 1) + 1 = n
    BY <1>1, <1>4, QueueIs
  <2>2. queue'[n - 1] = queue[n]
    BY <1>1, <2>1
  <2>3. QED
    BY <2>1, <2>2 DEF QueuedIds
<1>5. QueuedIds' = QueuedIds \ {Head(queue).id}
  BY <1>3, <1>4 DEF QueuedIds
<1>6. Head(queue).id \in QueuedIds /\ Head(queue) \in Text
  BY <1>1, QueueIs DEF QueuedIds
<1>7. QED
  BY <1>2, <1>5, <1>6

(* A prompt joins the queue. *)
LEMMA QueueAfterAppend ==
  ASSUME TypeOK, QueueOnce, NEW text \in Text, text.id \notin QueuedIds,
         queue' = Append(queue, text)
  PROVE  QueuedIds' = QueuedIds \cup {text.id} /\ QueueOnce'
<1>1. /\ Len(queue) \in Nat /\ DOMAIN queue = 1 .. Len(queue)
      /\ DOMAIN queue' = 1 .. Len(queue) + 1
      /\ \A n \in 1 .. Len(queue) : queue'[n] = queue[n]
      /\ queue'[Len(queue) + 1] = text
  BY QueueIs, AppendProperties
<1>2. \A n \in DOMAIN queue' : n = Len(queue) + 1 \/ n \in DOMAIN queue
  BY <1>1
<1>3. \A n \in DOMAIN queue : n \in DOMAIN queue' /\ Len(queue) + 1 \in DOMAIN queue'
  BY <1>1
<1>4. Len(queue) + 1 \in DOMAIN queue'
  BY <1>1
<1>5. QueuedIds' = QueuedIds \cup {text.id}
  BY <1>1, <1>2, <1>3, <1>4 DEF QueuedIds
<1>6. QueueOnce'
  BY <1>1, <1>2 DEF QueueOnce, QueuedIds
<1>7. QED
  BY <1>5, <1>6

(* Texts come to rest. *)
LEMMA RestAfterSettle ==
  ASSUME SettledOnce, NEW X, NEW where, Settle(X, where), X \cap Resting \subseteq {0}
  PROVE  Resting' = Resting \cup X /\ SettledOnce'
<1>1. \A n \in X : <<n, where>> \in settled' /\ <<n, where>>[1] = n
  BY DEF Settle
<1>2. \A a \in settled' : a \in settled \/ \E n \in X : a = <<n, where>>
  BY DEF Settle
<1>3. settled \subseteq settled'
  BY DEF Settle
<1>4. Resting' = Resting \cup X
  <2>1. Resting' \subseteq Resting \cup X
    BY <1>1, <1>2 DEF Resting
  <2>2. Resting \cup X \subseteq Resting'
    BY <1>1, <1>3 DEF Resting
  <2>3. QED
    BY <2>1, <2>2
<1>5. SettledOnce'
  BY <1>1, <1>2 DEF SettledOnce, Resting
<1>6. QED
  BY <1>4, <1>5

(* The place of everything. *)
LEMMA AtIs ==
  /\ At["queue"] = QueuedIds /\ At["window"] = Ids({window}) /\ At["pumps"] = Ids(pumps)
  /\ At["stops"] = Ids(stops) /\ At["delivers"] = Ids(delivers) /\ At["answers"] = Ids(answers)
  /\ At["rest"] = Resting \ {0}
  /\ At'["queue"] = QueuedIds' /\ At'["window"] = Ids({window'}) /\ At'["pumps"] = Ids(pumps')
  /\ At'["stops"] = Ids(stops') /\ At'["delivers"] = Ids(delivers')
  /\ At'["answers"] = Ids(answers') /\ At'["rest"] = Resting' \ {0}
BY DEF At, Place

(* A prompt is taken out, wherever it is. *)
LEMMA QueueAfterWithout ==
  ASSUME TypeOK, QueueOnce, NEW n \in DOMAIN queue, queue' = Without(n)
  PROVE  /\ QueuedIds' = QueuedIds \ {queue[n].id} /\ QueueOnce'
         /\ queue[n].id \in QueuedIds /\ queue[n] \in Text
<1>1. /\ Len(queue) \in Nat /\ n \in 1 .. Len(queue) /\ DOMAIN queue = 1 .. Len(queue)
      /\ DOMAIN queue' = 1 .. Len(queue) - 1
      /\ \A m \in DOMAIN queue' : queue'[m] = queue[IF m < n THEN m ELSE m + 1]
  BY QueueIs, WithoutIs, LenProperties
<1> DEFINE From(m) == IF m < n THEN m ELSE m + 1
<1>2. ASSUME NEW m \in DOMAIN queue'
      PROVE  From(m) \in DOMAIN queue /\ From(m) # n /\ queue'[m] = queue[From(m)]
  BY <1>1
<1>3. \A m, k \in DOMAIN queue' : From(m) = From(k) => m = k
  BY <1>1
<1>4. ASSUME NEW k \in DOMAIN queue, k # n
      PROVE  \E m \in DOMAIN queue' : From(m) = k
  <2>1. CASE k < n
    BY <1>1, <2>1
  <2>2. CASE ~(k < n)
    <3>1. k - 1 \in DOMAIN queue' /\ From(k - 1) = k
      BY <1>1, <1>4, <2>2
    <3>2. QED
      BY <3>1
  <2>3. QED
    BY <2>1, <2>2
<1> HIDE DEF From
<1>5. QueueOnce'
  BY <1>2, <1>3 DEF QueueOnce
<1>6. QueuedIds' \subseteq QueuedIds \ {queue[n].id}
  BY <1>2 DEF QueuedIds, QueueOnce
<1>7. QueuedIds \ {queue[n].id} \subseteq QueuedIds'
  <2>1. ASSUME NEW k \in DOMAIN queue, k # n
        PROVE  queue[k].id \in QueuedIds'
    <3>1. PICK m \in DOMAIN queue' : From(m) = k
      BY <1>4, <2>1
    <3>2. queue'[m] = queue[k]
      BY <1>2, <3>1
    <3>3. QED
      BY <3>2 DEF QueuedIds
  <2>2. QED
    BY <2>1 DEF QueuedIds
<1>8. queue[n].id \in QueuedIds /\ queue[n] \in Text
  BY QueueIs DEF QueuedIds
<1>9. QED
  BY <1>5, <1>6, <1>7, <1>8

(* A prompt moves to the front. *)
LEMMA FrontIs ==
  ASSUME TypeOK, NEW n \in DOMAIN queue, NEW s, s = <<queue[n]>> \o Without(n)
  PROVE  /\ DOMAIN s = 1 .. Len(queue) /\ s[1] = queue[n]
         /\ \A m \in 2 .. Len(queue) : s[m] = queue[IF m <= n THEN m - 1 ELSE m]
<1> DEFINE w == Without(n)
           x == queue[n]
<1>1. /\ Len(queue) \in Nat /\ n \in 1 .. Len(queue)
      /\ w \in Seq(Text) /\ Len(w) = Len(queue) - 1
      /\ \A m \in 1 .. Len(queue) - 1 : w[m] = queue[IF m < n THEN m ELSE m + 1]
  BY QueueIs, WithoutIs, LenProperties
<1>2. x \in Text
  BY QueueIs
<1>3. s = <<x>> \o w
  OBVIOUS
<1> HIDE DEF w, x
<1>4. /\ <<x>> \in Seq(Text) /\ Len(<<x>>) = 1 /\ <<x>>[1] = x
  BY <1>2
<1>5. /\ Len(s) = 1 + Len(w) /\ s \in Seq(Text)
      /\ \A m \in 1 .. 1 + Len(w) : s[m] = IF m = 1 THEN x ELSE w[m - 1]
  <2>1. /\ Len(<<x>> \o w) = 1 + Len(w) /\ <<x>> \o w \in Seq(Text)
        /\ \A m \in 1 .. 1 + Len(w) : (<<x>> \o w)[m] = IF m = 1 THEN x ELSE w[m - 1]
    BY <1>1, <1>2
  <2>2. QED
    BY <1>3, <2>1
<1>6. 1 + Len(w) = Len(queue)
  BY <1>1
<1>7. DOMAIN s = 1 .. Len(queue)
  BY <1>5, <1>6, LenProperties
<1>8. s[1] = x
  BY <1>1, <1>4, <1>5, <1>6
<1>9. ASSUME NEW m \in 2 .. Len(queue)
      PROVE  s[m] = queue[IF m <= n THEN m - 1 ELSE m]
  <2>1. m - 1 \in 1 .. Len(queue) - 1 /\ (m - 1) + 1 = m /\ (m - 1 < n <=> m <= n)
    BY <1>1
  <2>2. s[m] = w[m - 1]
    BY <1>1, <1>5, <1>6
  <2>3. w[m - 1] = queue[IF m - 1 < n THEN m - 1 ELSE (m - 1) + 1]
    BY <1>1, <2>1
  <2>4. QED
    BY <2>1, <2>2, <2>3
<1>10. QED
  BY <1>7, <1>8, <1>9 DEF x

(* The queue in another order. *)
LEMMA QueueReordered ==
  ASSUME QueueOnce, DOMAIN queue' = DOMAIN queue,
         NEW f, \A m \in DOMAIN queue : f[m] \in DOMAIN queue /\ queue'[m] = queue[f[m]],
         \A m, k \in DOMAIN queue : f[m] = f[k] => m = k,
         \A k \in DOMAIN queue : \E m \in DOMAIN queue : f[m] = k
  PROVE  QueuedIds' = QueuedIds /\ QueueOnce'
<1>1. QueueOnce'
  <2>1. ASSUME NEW m \in DOMAIN queue, NEW k \in DOMAIN queue, queue'[m].id = queue'[k].id
        PROVE  m = k
    <3>1. PICK a \in DOMAIN queue : a = f[m] /\ queue'[m] = queue[a]
      BY ZenonT(60)
    <3>2. PICK b \in DOMAIN queue : b = f[k] /\ queue'[k] = queue[b]
      BY ZenonT(60)
    <3>3. queue[a].id = queue[b].id
      BY <2>1, <3>1, <3>2, ZenonT(60)
    <3>4. a = b
      BY <3>3, ZenonT(60) DEF QueueOnce
    <3>5. QED
      BY <3>1, <3>2, <3>4, ZenonT(60)
  <2>2. QED
    BY <2>1, Zenon DEF QueueOnce
<1>2. ASSUME NEW e \in QueuedIds'
      PROVE  e \in QueuedIds
  <2>1. PICK m \in DOMAIN queue : e = queue'[m].id
    BY Zenon DEF QueuedIds
  <2>2. e = queue[f[m]].id /\ f[m] \in DOMAIN queue
    BY <2>1, Zenon
  <2>3. QED
    BY <2>2, Zenon DEF QueuedIds
<1>3. ASSUME NEW e \in QueuedIds
      PROVE  e \in QueuedIds'
  <2>1. PICK k \in DOMAIN queue : e = queue[k].id
    BY Zenon DEF QueuedIds
  <2>2. PICK m \in DOMAIN queue : f[m] = k
    BY Zenon
  <2>3. e = queue'[m].id
    BY <2>1, <2>2, Zenon
  <2>4. QED
    BY <2>3, Zenon DEF QueuedIds
<1>4. QED
  BY <1>1, <1>2, <1>3

LEMMA QueueAfterFront ==
  ASSUME TypeOK, QueueOnce, NEW n \in DOMAIN queue, queue' = <<queue[n]>> \o Without(n)
  PROVE  QueuedIds' = QueuedIds /\ QueueOnce'
<1> DEFINE From(m) == IF m = 1 THEN n ELSE IF m <= n THEN m - 1 ELSE m
           len == Len(queue)
<1>1. /\ len \in Nat /\ n \in 1 .. len /\ DOMAIN queue = 1 .. len /\ DOMAIN queue' = 1 .. len
      /\ queue'[1] = queue[n]
      /\ \A m \in 2 .. len : queue'[m] = queue[IF m <= n THEN m - 1 ELSE m]
  BY QueueIs, FrontIs
<1> HIDE DEF len
<1>2. ASSUME NEW m \in 1 .. len
      PROVE  From(m) \in 1 .. len
  BY <1>1
<1>3. ASSUME NEW m \in 1 .. len
      PROVE  queue'[m] = queue[From(m)]
  <2>1. m = 1 \/ m \in 2 .. len
    BY <1>1
  <2>2. QED
    BY <1>1, <2>1
<1>4. \A m, k \in 1 .. len : From(m) = From(k) => m = k
  BY <1>1
<1>5. ASSUME NEW k \in 1 .. len
      PROVE  \E m \in 1 .. len : From(m) = k
  <2>1. CASE k = n
    BY <1>1, <2>1
  <2>2. CASE k < n
    <3>1. k + 1 \in 1 .. len /\ From(k + 1) = k
      BY <1>1, <2>2
    <3>2. QED
      BY <3>1
  <2>3. CASE k > n
    BY <1>1, <2>3
  <2>4. QED
    BY <1>1, <2>1, <2>2, <2>3
<1> DEFINE f == [m \in 1 .. len |-> From(m)]
<1> HIDE DEF From
<1>6. /\ \A m \in DOMAIN queue : f[m] \in DOMAIN queue /\ queue'[m] = queue[f[m]]
      /\ \A m, k \in DOMAIN queue : f[m] = f[k] => m = k
      /\ \A k \in DOMAIN queue : \E m \in DOMAIN queue : f[m] = k
  BY <1>1, <1>2, <1>3, <1>4, <1>5, Zenon
<1> HIDE DEF f
<1>7. QED
  BY <1>1, <1>6, QueueReordered

-----------------------------------------------------------------------------
(* What has to be shown of a step. *)
Orderly == EachOnce' /\ HandsEmpty' /\ TextStep

(* The same numbers, in hands that have kept their place. *)
WindowKeeps ==
  /\ Ids({window})' = Ids({window})
  /\ window'.pc \notin {"send", "answer"} => window'.text = NoText
PumpsKeep ==
  /\ Ids(pumps)' = Ids(pumps) /\ Once(pumps)'
  /\ \A p \in pumps' : p.pc # "send" => p.text = NoText
StopsKeep ==
  /\ Ids(stops)' = Ids(stops) /\ Once(stops)'
  /\ \A t \in stops' : t.pc # "send" => t.text = NoText
DeliversKeep == Ids(delivers)' = Ids(delivers) /\ Once(delivers)'
AnswersKeep  == Ids(answers)' = Ids(answers) /\ Once(answers)'
QueueKeeps   == QueuedIds' = QueuedIds /\ QueueOnce'
RestKeeps    == Resting' = Resting /\ SettledOnce'

LEMMA Untouched ==
  ASSUME TextInv
  PROVE  /\ UNCHANGED window => WindowKeeps
         /\ UNCHANGED pumps => PumpsKeep
         /\ UNCHANGED stops => StopsKeep
         /\ UNCHANGED delivers => DeliversKeep
         /\ UNCHANGED answers => AnswersKeep
         /\ UNCHANGED queue => QueueKeeps
         /\ UNCHANGED settled => RestKeeps
<1>1. UNCHANGED window => WindowKeeps
  BY DEF WindowKeeps, Ids, TextInv, HandsEmpty
<1>2. UNCHANGED pumps => PumpsKeep
  BY DEF PumpsKeep, Ids, Once, TextInv, EachOnce, HandsEmpty
<1>3. UNCHANGED stops => StopsKeep
  BY DEF StopsKeep, Ids, Once, TextInv, EachOnce, HandsEmpty
<1>4. UNCHANGED delivers => DeliversKeep
  BY DEF DeliversKeep, Ids, Once, TextInv, EachOnce
<1>5. UNCHANGED answers => AnswersKeep
  BY DEF AnswersKeep, Ids, Once, TextInv, EachOnce
<1>6. UNCHANGED queue => QueueKeeps
  BY DEF QueueKeeps, QueuedIds, QueueOnce, TextInv, EachOnce
<1>7. UNCHANGED settled => RestKeeps
  BY DEF RestKeeps, Resting, SettledOnce, TextInv, EachOnce
<1>8. QED
  BY <1>1, <1>2, <1>3, <1>4, <1>5, <1>6, <1>7

(* No number moves. *)
LEMMA NothingMoves ==
  ASSUME UNCHANGED typed, WindowKeeps, PumpsKeep, StopsKeep, DeliversKeep, AnswersKeep,
         QueueKeeps, RestKeeps
  PROVE  Orderly
<1>1. \A p \in Place : At'[p] = At[p]
  <2>1. /\ At'["queue"] = At["queue"] /\ At'["window"] = At["window"]
        /\ At'["pumps"] = At["pumps"] /\ At'["stops"] = At["stops"]
        /\ At'["delivers"] = At["delivers"] /\ At'["answers"] = At["answers"]
        /\ At'["rest"] = At["rest"]
    BY AtIs DEF WindowKeeps, PumpsKeep, StopsKeep, DeliversKeep, AnswersKeep, QueueKeeps, RestKeeps
  <2>2. QED
    BY <2>1 DEF Place
<1>2. EachOnce' /\ HandsEmpty'
  BY DEF EachOnce, HandsEmpty, WindowKeeps, PumpsKeep, StopsKeep, DeliversKeep, AnswersKeep,
     QueueKeeps, RestKeeps
<1>3. QED
  BY <1>1, <1>2 DEF Orderly, TextStep, NumbersStay

(* Some do. *)
LEMMA SomeMove ==
  ASSUME UNCHANGED typed, EachOnce', HandsEmpty',
         NEW from \in Place, NEW to \in Place, from # to,
         NEW X, X \subseteq At[from],
         At'[from] = At[from] \ X, At'[to] = At[to] \cup X,
         \A p \in Place \ {from, to} : At'[p] = At[p]
  PROVE  Orderly
<1>1. ASSUME NEW p \in Place
      PROVE  At'[p] = IF p = from THEN At[p] \ X ELSE IF p = to THEN At[p] \cup X ELSE At[p]
  BY Zenon
<1>2. NumbersMove(X, from, to)
  BY <1>1 DEF NumbersMove
<1>3. QED
  BY <1>2 DEF Orderly, TextStep

(* What one place holds no other does. *)
LEMMA Elsewhere ==
  ASSUME TypeOK, TextInv, NEW a \in Place, NEW n \in At[a], NEW b \in Place, b # a
  PROVE  n \notin At[b] /\ n # 0 /\ n \in Nat
<1>1. n \in 1 .. typed /\ typed \in Nat
  BY DEF TextInv, Numbered, TypeOK, HistoryTypeOK
<1>2. QED
  BY <1>1 DEF TextInv, Apart

-----------------------------------------------------------------------------
(* Steps that keep every text in its place. *)

(* A record of a pump, a stop or a delivery is rewritten; its text stays. *)
LEMMA PumpRewritten ==
  ASSUME TextInv, NEW p \in pumps, NEW q, q.text = p.text, q.pc # "send" => q.text = NoText,
         pumps' = (pumps \ {p}) \cup {q}
  PROVE  PumpsKeep
<1>1. Once(pumps) /\ \A r \in pumps : r.pc # "send" => r.text = NoText
  BY DEF TextInv, EachOnce, HandsEmpty
<1>2. Ids(pumps)' = Ids(pumps) /\ Once(pumps)'
  BY <1>1, Replaced
<1>3. \A r \in pumps' : r.pc # "send" => r.text = NoText
  BY <1>1
<1>4. QED
  BY <1>2, <1>3 DEF PumpsKeep

LEMMA StopRewritten ==
  ASSUME TextInv, NEW t \in stops, NEW u, u.text = t.text, u.pc # "send" => u.text = NoText,
         stops' = (stops \ {t}) \cup {u}
  PROVE  StopsKeep
<1>1. Once(stops) /\ \A r \in stops : r.pc # "send" => r.text = NoText
  BY DEF TextInv, EachOnce, HandsEmpty
<1>2. Ids(stops)' = Ids(stops) /\ Once(stops)'
  BY <1>1, Replaced
<1>3. \A r \in stops' : r.pc # "send" => r.text = NoText
  BY <1>1
<1>4. QED
  BY <1>2, <1>3 DEF StopsKeep

LEMMA StopLeaves ==
  ASSUME TextInv, NEW t \in stops, t.pc # "send", stops' = stops \ {t}
  PROVE  StopsKeep
<1>1. Once(stops) /\ \A r \in stops : r.pc # "send" => r.text = NoText
  BY DEF TextInv, EachOnce, HandsEmpty
<1>2. t.text.id = 0
  BY <1>1 DEF NoText
<1>3. Ids(stops)' = Ids(stops) \ {0} /\ Once(stops)'
  BY <1>1, <1>2, Removed
<1>4. QED
  BY <1>1, <1>3 DEF StopsKeep, Ids

LEMMA StopJoins ==
  ASSUME TextInv, NEW u, u.text = NoText, stops' = stops \cup {u}
  PROVE  StopsKeep
<1>1. Once(stops) /\ \A r \in stops : r.pc # "send" => r.text = NoText
  BY DEF TextInv, EachOnce, HandsEmpty
<1>2. u.text.id = 0
  BY DEF NoText
<1>3. Ids(stops)' = Ids(stops) \cup ({0} \ {0}) /\ Once(stops)'
  BY <1>1, <1>2, Added DEF Ids
<1>4. QED
  BY <1>1, <1>3 DEF StopsKeep, Ids

LEMMA DeliverRewritten ==
  ASSUME TextInv, NEW d \in delivers, NEW e, e.text = d.text,
         delivers' = (delivers \ {d}) \cup {e}
  PROVE  DeliversKeep
BY Replaced DEF TextInv, EachOnce, DeliversKeep

(* Events enter a channel and leave it; pumps hold their texts. *)
LEMMA EmitKeeps ==
  ASSUME TypeOK, TextInv, NEW e, NEW event, pumps' = Emit(pumps, e, event)
  PROVE  PumpsKeep
<1> DEFINE g(p) == IF p.epoch = e THEN [p EXCEPT !.events = Append(@, event)] ELSE p
<1>1. \A p \in pumps : g(p).text = p.text /\ g(p).pc = p.pc
  BY DEF TypeOK, TasksTypeOK, Pump
<1>2. pumps' = {g(p) : p \in pumps}
  BY DEF Emit
<1> HIDE DEF g
<1>3. Once(pumps) /\ \A r \in pumps : r.pc # "send" => r.text = NoText
  BY DEF TextInv, EachOnce, HandsEmpty
<1>4. Ids(pumps)' = Ids(pumps)
  BY <1>1, <1>2 DEF Ids
<1>5. Once(pumps)'
  BY <1>1, <1>2, <1>3 DEF Once
<1>6. \A r \in pumps' : r.pc # "send" => r.text = NoText
  BY <1>1, <1>2, <1>3
<1>7. QED
  BY <1>4, <1>5, <1>6 DEF PumpsKeep

LEMMA LastWordKeeps ==
  ASSUME TypeOK, TextInv, NEW i, LastWord(i)
  PROVE  PumpsKeep
BY EmitKeeps, Untouched DEF LastWord

(* A new channel's pump has no text. *)
LEMMA PumpJoins ==
  ASSUME TextInv, NEW q, q.text = NoText, pumps' = pumps \cup {q}
  PROVE  PumpsKeep
<1>1. Once(pumps) /\ \A r \in pumps : r.pc # "send" => r.text = NoText
  BY DEF TextInv, EachOnce, HandsEmpty
<1>2. q.text.id = 0
  BY DEF NoText
<1>3. Ids(pumps)' = Ids(pumps) \cup ({0} \ {0}) /\ Once(pumps)'
  BY <1>1, <1>2, Added DEF Ids
<1>4. QED
  BY <1>1, <1>3 DEF PumpsKeep, Ids

(* Nothing that holds a text is touched. *)
LEMMA QuietSteps ==
  ASSUME TextInv, UNCHANGED <<typed, settled, queue, window, pumps, stops, delivers, answers>>
  PROVE  Orderly
BY Untouched, NothingMoves

(* Only pumps, only stops, only deliveries change, and keep what they hold. *)
LEMMA PumpsAlone ==
  ASSUME TextInv, UNCHANGED <<typed, settled, queue, window, stops, delivers, answers>>, PumpsKeep
  PROVE  Orderly
BY Untouched, NothingMoves

LEMMA StopsAlone ==
  ASSUME TextInv, UNCHANGED <<typed, settled, queue, pumps, delivers, answers>>,
         WindowKeeps, StopsKeep
  PROVE  Orderly
BY Untouched, NothingMoves

LEMMA DeliversAlone ==
  ASSUME TextInv, UNCHANGED <<typed, settled, queue, window, pumps, stops, answers>>, DeliversKeep
  PROVE  Orderly
BY Untouched, NothingMoves

(* Connecting, retrying, restarting the server, attaching a session. *)
LEMMA ConnectionSteps ==
  ASSUME TextInv,
         \/ \E c \in connects : \/ ConnectProbed(c) \/ ConnectAttach(c) \/ ConnectEnsured(c)
                                \/ ConnectRetry(c) \/ ConnectReopen(c)
         \/ RetryNext \/ RestartNext \/ OpenTaskNext
         \/ \E t \in scopes : ClearScope(t)
         \/ \E i \in Adapters : EnsureSettle(i)
         \/ CommandConnect \/ DisableBackend \/ ApplyWorkspace \/ DismissClarify
         \/ ListFails \/ UNCHANGED vars
  PROVE  Orderly
<1> SUFFICES UNCHANGED <<typed, settled, queue, window, pumps, stops, delivers, answers>>
  BY QuietSteps
<1>1. CASE \E c \in connects : \/ ConnectProbed(c) \/ ConnectAttach(c) \/ ConnectEnsured(c)
                               \/ ConnectRetry(c) \/ ConnectReopen(c)
  BY <1>1 DEF ConnectProbed, ConnectAttach, ConnectEnsured, ConnectRetry, ConnectReopen
<1>2. CASE RetryNext \/ RestartNext
  BY <1>2 DEF RetryNext, RetryFires, RetryConnects, RestartNext, ServerRestarted, RestartConnects
<1>3. CASE OpenTaskNext
  BY <1>3 DEF OpenTaskNext, OpenAttach, OpenEnsured, OpenHistory, OpenResume, OpenResumed,
     OpenStreamLost, OpenRetry
<1>4. CASE (\E t \in scopes : ClearScope(t)) \/ (\E i \in Adapters : EnsureSettle(i))
  BY <1>4 DEF ClearScope, EnsureSettle
<1>5. CASE CommandConnect \/ DisableBackend \/ ApplyWorkspace \/ DismissClarify
  BY <1>5 DEF CommandConnect, DisableBackend, ApplyWorkspace, DismissClarify
<1>6. CASE ListFails \/ UNCHANGED vars
  BY <1>6 DEF ListFails, vars
<1>7. QED
  BY <1>1, <1>2, <1>3, <1>4, <1>5, <1>6

(* The channels and what travels in them. *)
LEMMA ChannelSteps ==
  ASSUME TypeOK, TextInv,
         \/ \E i \in Adapters : EnsureBegin(i) \/ EnsureDial(i) \/ AdapterDisconnects(i)
         \/ StreamNext
  PROVE  Orderly
<1>1. UNCHANGED <<typed, settled, queue, window, stops, delivers, answers>>
  <2>1. CASE \E i \in Adapters : EnsureBegin(i) \/ EnsureDial(i) \/ AdapterDisconnects(i)
    BY <2>1 DEF EnsureBegin, EnsureDial, AdapterDisconnects
  <2>2. CASE StreamNext
    BY <2>2 DEF StreamNext, StreamConnects, StreamFails, StreamDrops, StreamFrame,
       StreamQuestion, StreamSessionInfo, Reports
  <2>3. QED
    BY <2>1, <2>2
<1>2. CASE \E i \in Adapters : EnsureBegin(i)
  <2>1. \/ UNCHANGED pumps
        \/ \E q : q.text = NoText /\ pumps' = pumps \cup {q}
    BY <1>2 DEF EnsureBegin
  <2>2. PumpsKeep
    BY <2>1, Untouched, PumpJoins
  <2>3. QED
    BY <1>1, <2>2, PumpsAlone
<1>3. CASE \E i \in Adapters : EnsureDial(i) \/ AdapterDisconnects(i)
  <2>1. \E i : LastWord(i)
    BY <1>3 DEF EnsureDial, AdapterDisconnects
  <2>2. QED
    BY <1>1, <2>1, LastWordKeeps, PumpsAlone
<1>4. CASE StreamNext
  <2>1. \E i, event, b : Reports(i, event, b)
    BY <1>4, Zenon DEF StreamNext, StreamConnects, StreamFails, StreamDrops, StreamFrame,
       StreamQuestion, StreamSessionInfo
  <2>2. \E e, event : pumps' = Emit(pumps, e, event)
    BY <2>1 DEF Reports
  <2>3. QED
    BY <1>1, <2>2, EmitKeeps, PumpsAlone
<1>5. QED
  BY <1>2, <1>3, <1>4

(* A pump takes an event out of its channel; it has no prompt in hand. *)
LEMMA HandlingSteps ==
  ASSUME TypeOK, TextInv, NEW p \in pumps,
         \/ DropsEvent(p) \/ HandleConnected(p) \/ HandleSessionInfo(p) \/ HandleClarify(p)
         \/ HandleLost(p) \/ HandleTurn(p) \/ PumpStreamLost(p) \/ PumpRetry(p)
  PROVE  Orderly
<1>1. UNCHANGED <<typed, settled, queue, window, stops, delivers, answers>>
  BY DEF DropsEvent, HandleConnected, HandleSessionInfo, HandleClarify, HandleLost, HandleTurn,
     PumpStreamLost, PumpRetry
<1>2. p \in Pump
  BY DEF TypeOK, TasksTypeOK
<1>3. p.pc # "send"
  BY DEF DropsEvent, HandleConnected, HandleSessionInfo, HandleClarify, HandleLost, HandleTurn,
     PumpStreamLost, PumpRetry, Ready
<1>4. p.text = NoText
  BY <1>3 DEF TextInv, HandsEmpty
<1>5. CASE \E pc : Handled(p, pc)
  <2>1. PICK pc : Handled(p, pc)
    BY <1>5
  <2> DEFINE q == [p EXCEPT !.events = Tail(@), !.pc = pc]
  <2>2. q.text = NoText
    BY <1>2, <1>4 DEF Pump
  <2>3. pumps' = (pumps \ {p}) \cup {q}
    BY <2>1 DEF Handled
  <2> HIDE DEF q
  <2>4. PumpsKeep
    BY <1>4, <2>2, <2>3, PumpRewritten
  <2>5. QED
    BY <1>1, <2>4, PumpsAlone
<1>6. CASE PumpStreamLost(p)
  <2> DEFINE q == [p EXCEPT !.pc = "retry", !.gen = connect_generation]
  <2>1. q.text = NoText
    BY <1>2, <1>4 DEF Pump
  <2>2. pumps' = (pumps \ {p}) \cup {q}
    BY <1>6 DEF PumpStreamLost
  <2> HIDE DEF q
  <2>3. PumpsKeep
    BY <1>4, <2>1, <2>2, PumpRewritten
  <2>4. QED
    BY <1>1, <2>3, PumpsAlone
<1>7. CASE PumpRetry(p)
  <2> DEFINE q == [p EXCEPT !.pc = "idle", !.gen = 0]
  <2>1. q.text = NoText
    BY <1>2, <1>4 DEF Pump
  <2>2. pumps' = (pumps \ {p}) \cup {q}
    BY <1>7 DEF PumpRetry
  <2> HIDE DEF q
  <2>3. PumpsKeep
    BY <1>4, <2>1, <2>2, PumpRewritten
  <2>4. QED
    BY <1>1, <2>3, PumpsAlone
<1>8. QED
  BY <1>5, <1>6, <1>7 DEF DropsEvent, HandleConnected, HandleSessionInfo, HandleClarify,
     HandleLost, HandleTurn

(* A delivery on its way keeps its prompt. *)
LEMMA DeliverySteps ==
  ASSUME TypeOK, TextInv, NEW d \in delivers,
         \/ DeliverChecks(d) \/ DeliverConnects(d) \/ DeliverWaits(d)
         \/ DeliverReadsBackend(d) \/ DeliverLocks(d) \/ DeliverAims(d)
         \/ DeliverResumes(d) \/ DeliverCreates(d) \/ DeliverAttaches(d)
  PROVE  Orderly
<1>1. UNCHANGED <<typed, settled, queue, window, pumps, stops, answers>>
  BY DEF DeliverChecks, DeliverConnects, DeliverWaits, DeliverReadsBackend, DeliverLocks,
     DeliverAims, DeliverResumes, DeliverCreates, DeliverAttaches
<1>2. d \in DeliverTask
  BY DEF TypeOK, TasksTypeOK
<1>3. /\ \A pc : [d EXCEPT !.pc = pc].text = d.text
      /\ \A pc, i : [d EXCEPT !.pc = pc, !.inst = i].text = d.text
      /\ \A pc, s : [d EXCEPT !.pc = pc, !.target = s].text = d.text
  BY <1>2 DEF DeliverTask
<1>4. \/ \E pc : delivers' = (delivers \ {d}) \cup {[d EXCEPT !.pc = pc]}
      \/ \E pc, i : delivers' = (delivers \ {d}) \cup {[d EXCEPT !.pc = pc, !.inst = i]}
      \/ \E pc, s : delivers' = (delivers \ {d}) \cup {[d EXCEPT !.pc = pc, !.target = s]}
  <2>1. CASE DeliverChecks(d) \/ DeliverConnects(d) \/ DeliverWaits(d) \/ DeliverReadsBackend(d)
    BY <2>1 DEF DeliverChecks, DeliverConnects, DeliverWaits, DeliverReadsBackend, DeliverIs
  <2>2. CASE DeliverLocks(d) \/ DeliverAims(d)
    BY <2>2 DEF DeliverLocks, DeliverAims, DeliverIs
  <2>3. CASE DeliverResumes(d) \/ DeliverCreates(d) \/ DeliverAttaches(d)
    BY <2>3 DEF DeliverResumes, DeliverCreates, DeliverAttaches, DeliverIs
  <2>4. QED
    BY <2>1, <2>2, <2>3
<1>5. \E e : e.text = d.text /\ delivers' = (delivers \ {d}) \cup {e}
  BY <1>3, <1>4
<1>6. DeliversKeep
  BY <1>5, DeliverRewritten
<1>7. QED
  BY <1>1, <1>6, DeliversAlone

(* Stopping, until the turn is over. *)
LEMMA StoppingSteps ==
  ASSUME TypeOK, TextInv,
         CommandStop \/ \E t \in stops : StopInterrupts(t) \/ StopGraceEnds(t)
  PROVE  Orderly
<1>1. UNCHANGED <<typed, settled, queue, window, pumps, delivers, answers>>
  BY DEF CommandStop, StopInterrupts, StopGraceEnds
<1>2. CASE CommandStop
  <2>1. \E u : u.text = NoText /\ stops' = stops \cup {u}
    BY <1>2 DEF CommandStop, Stop
  <2>2. QED
    BY <1>1, <2>1, StopJoins, StopsAlone, Untouched
<1>3. ASSUME NEW t \in stops, StopInterrupts(t) \/ StopGraceEnds(t)
      PROVE  Orderly
  <2>1. t \in StopTask /\ t.pc # "send"
    BY <1>3 DEF TypeOK, TasksTypeOK, StopInterrupts, StopGraceEnds
  <2>2. t.text = NoText
    BY <2>1 DEF TextInv, HandsEmpty
  <2>3. \A pc : [t EXCEPT !.pc = pc].text = NoText
    BY <2>1, <2>2 DEF StopTask
  <2>4. \/ stops' = stops \ {t}
        \/ \E pc : stops' = (stops \ {t}) \cup {[t EXCEPT !.pc = pc]}
    BY <1>3 DEF StopInterrupts, StopGraceEnds
  <2>5. stops' = stops \ {t} \/ \E u : u.text = NoText /\ stops' = (stops \ {t}) \cup {u}
    BY <2>3, <2>4
  <2>6. StopsKeep
    BY <2>1, <2>2, <2>5, StopLeaves, StopRewritten
  <2>7. QED
    BY <1>1, <2>6, StopsAlone, Untouched
<1>4. QED
  BY <1>2, <1>3

-----------------------------------------------------------------------------
(* Steps that move a text. *)

(* The window thread goes on with no text, as it came. *)
LEMMA WindowHasNone ==
  ASSUME TextInv, window.pc \notin {"send", "answer"}, NEW pc, WindowIs(pc, NoText)
  PROVE  WindowKeeps
<1>1. window.text = NoText /\ window'.text = NoText
  BY DEF TextInv, HandsEmpty, WindowIs
<1>2. Ids({window})' = Ids({window})
  BY <1>1 DEF Ids
<1>3. QED
  BY <1>1, <1>2 DEF WindowKeeps

(* A conversation is left: its queue goes back to the composer. *)
LEMMA QueueReturns ==
  ASSUME TypeOK, TextInv, ReturnPendingToComposer,
         UNCHANGED <<typed, pumps, stops, delivers, answers>>, WindowKeeps
  PROVE  Orderly
<1>1. QueuedIds' = {} /\ QueueOnce'
  BY DEF ReturnPendingToComposer, QueuedIds, QueueOnce
<1>2. QueuedIds \cap Resting = {} /\ 0 \notin QueuedIds
  <2>1. \A n \in QueuedIds : n \notin Resting \ {0} /\ n # 0
    BY AtIs, Elsewhere DEF Place
  <2>2. QED
    BY <2>1
<1>3. Resting' = Resting \cup QueuedIds /\ SettledOnce'
  BY <1>2, RestAfterSettle DEF ReturnPendingToComposer, TextInv, EachOnce
<1>4. EachOnce' /\ HandsEmpty'
  BY <1>1, <1>3, Untouched DEF EachOnce, HandsEmpty, WindowKeeps, PumpsKeep, StopsKeep,
     DeliversKeep, AnswersKeep
<1>5. At'["queue"] = At["queue"] \ QueuedIds /\ At'["rest"] = At["rest"] \cup QueuedIds
  BY <1>1, <1>2, <1>3, AtIs
<1>6. \A p \in Place \ {"queue", "rest"} : At'[p] = At[p]
  <2>1. /\ At'["window"] = At["window"] /\ At'["pumps"] = At["pumps"]
        /\ At'["stops"] = At["stops"] /\ At'["delivers"] = At["delivers"]
        /\ At'["answers"] = At["answers"]
    BY AtIs, Untouched DEF WindowKeeps, PumpsKeep, StopsKeep, DeliversKeep, AnswersKeep
  <2>2. QED
    BY <2>1 DEF Place
<1>7. QueuedIds \subseteq At["queue"] /\ "queue" \in Place /\ "rest" \in Place
  BY AtIs DEF Place
<1>8. QED
  BY <1>4, <1>5, <1>6, <1>7, SomeMove

LEMMA LeavingSteps ==
  ASSUME TypeOK, TextInv,
         \/ \E c \in connects : ConnectOpen(c)
         \/ \E s \in Session : OpenSession(s)
         \/ \E k \in Kind : SwitchBackend(k)
         \/ NewChat
  PROVE  Orderly
<1>1. ASSUME NEW c \in connects, ConnectOpen(c)
      PROVE  Orderly
  <2>1. CASE Reopens(c.session)
    <3>1. /\ ReturnPendingToComposer
          /\ UNCHANGED <<typed, window, pumps, stops, delivers, answers>>
      BY <1>1, <2>1 DEF ConnectOpen, Open
    <3>2. QED
      BY <3>1, QueueReturns, Untouched
  <2>2. CASE ~Reopens(c.session)
    <3>1. UNCHANGED <<typed, settled, queue, window, pumps, stops, delivers, answers>>
      BY <1>1, <2>2 DEF ConnectOpen
    <3>2. QED
      BY <3>1, QuietSteps
  <2>3. QED
    BY <2>1, <2>2
<1>2. CASE \E s \in Session : OpenSession(s)
  <2>1. /\ ReturnPendingToComposer
        /\ UNCHANGED <<typed, window, pumps, stops, delivers, answers>>
    BY <1>2 DEF OpenSession, Open
  <2>2. QED
    BY <2>1, QueueReturns, Untouched
<1>3. CASE (\E k \in Kind : SwitchBackend(k)) \/ NewChat
  <2>1. /\ ReturnPendingToComposer
        /\ UNCHANGED <<typed, pumps, stops, delivers, answers>>
        /\ WindowIdle /\ \E pc : WindowIs(pc, NoText)
    BY <1>3 DEF SwitchBackend, NewChat
  <2>2. WindowKeeps
    BY <2>1, WindowHasNone DEF WindowIdle
  <2>3. QED
    BY <2>1, <2>2, QueueReturns
<1>4. QED
  BY <1>1, <1>2, <1>3

(* The window thread's steps that have no text in hand. *)
LEMMA WindowSteps ==
  ASSUME TypeOK, TextInv, WindowConnects \/ WindowClearsScope \/ WindowStops
  PROVE  Orderly
<1>1. /\ UNCHANGED <<typed, settled, queue, pumps, delivers, answers>>
      /\ WindowIs("idle", NoText) /\ window.pc \in {"connect", "scope", "stop"}
  BY DEF WindowConnects, WindowClearsScope, WindowStops
<1>2. WindowKeeps
  BY <1>1, WindowHasNone
<1>3. UNCHANGED stops \/ \E u : u.text = NoText /\ stops' = stops \cup {u}
  BY DEF WindowConnects, WindowClearsScope, WindowStops, Stop
<1>4. StopsKeep
  BY <1>3, Untouched, StopJoins
<1>5. QED
  BY <1>1, <1>2, <1>4, StopsAlone

(* send_queued_now: the queue is reordered. *)
LEMMA SendNowStep ==
  ASSUME TypeOK, TextInv, NEW n \in DOMAIN queue, SendQueuedNow(n)
  PROVE  Orderly
<1>1. /\ UNCHANGED <<typed, settled, pumps, stops, delivers, answers>>
      /\ queue' = <<queue[n]>> \o Without(n)
  BY DEF SendQueuedNow
<1>2. WindowIdle /\ \E pc : WindowIs(pc, NoText)
  BY DEF SendQueuedNow
<1>3. WindowKeeps
  BY <1>2, WindowHasNone DEF WindowIdle
<1>4. QueueKeeps
  BY <1>1, QueueAfterFront DEF QueueKeeps, TextInv, EachOnce
<1>5. QED
  BY <1>1, <1>3, <1>4, Untouched, NothingMoves

(* edit_queued, cancel_queued: from the queue to rest. *)
LEMMA UnqueueStep ==
  ASSUME TypeOK, TextInv, NEW n \in DOMAIN queue, Unqueue(n)
  PROVE  Orderly
<1> DEFINE X == {queue[n].id}
<1>1. /\ UNCHANGED <<typed, window, pumps, stops, delivers, answers>>
      /\ queue' = Without(n)
      /\ \E where \in {"composer", "cancelled"} : Settle(X, where)
  BY DEF Unqueue
<1>2. QueuedIds' = QueuedIds \ X /\ QueueOnce' /\ X \subseteq QueuedIds
  BY <1>1, QueueAfterWithout DEF TextInv, EachOnce
<1>3. X \cap Resting = {} /\ 0 \notin X
  <2>1. \A m \in QueuedIds : m \notin Resting \ {0} /\ m # 0
    BY AtIs, Elsewhere DEF Place
  <2>2. QED
    BY <1>2, <2>1
<1> HIDE DEF X
<1>4. Resting' = Resting \cup X /\ SettledOnce'
  BY <1>1, <1>3, RestAfterSettle DEF TextInv, EachOnce
<1>5. EachOnce' /\ HandsEmpty'
  BY <1>1, <1>2, <1>4, Untouched DEF EachOnce, HandsEmpty, WindowKeeps, PumpsKeep, StopsKeep,
     DeliversKeep, AnswersKeep
<1>6. At'["queue"] = At["queue"] \ X /\ At'["rest"] = At["rest"] \cup X /\ X \subseteq At["queue"]
  BY <1>2, <1>3, <1>4, AtIs
<1>7. \A p \in Place \ {"queue", "rest"} : At'[p] = At[p]
  <2>1. /\ At'["window"] = At["window"] /\ At'["pumps"] = At["pumps"]
        /\ At'["stops"] = At["stops"] /\ At'["delivers"] = At["delivers"]
        /\ At'["answers"] = At["answers"]
    BY <1>1, AtIs
  <2>2. QED
    BY <2>1 DEF Place
<1>8. "queue" \in Place /\ "rest" \in Place
  BY DEF Place
<1>9. QED
  BY <1>1, <1>5, <1>6, <1>7, <1>8, SomeMove

-----------------------------------------------------------------------------
(* From whoever sends to a delivery, from the queue to whoever sends. *)

(* The one number of a record, if it has one. *)
Own(x) == {x.text.id} \ {0}

LEMMA OwnAt ==
  ASSUME NEW S, NEW x \in S
  PROVE  Own(x) \subseteq Ids(S)
BY DEF Own, Ids

(* send(): the delivery has the text now. *)
LEMMA SendDelivers ==
  ASSUME TextInv, NEW text, Send(text), text.id \notin Ids(delivers)
  PROVE  Ids(delivers)' = Ids(delivers) \cup ({text.id} \ {0}) /\ Once(delivers)'
<1> DEFINE d == [text |-> text, view |-> view_generation, turn |-> turn_seq + 1,
                 home |-> stored, inst |-> 0, target |-> None, pc |-> "check"]
<1>1. delivers' = delivers \cup {d} /\ d.text.id = text.id
  BY DEF Send
<1> HIDE DEF d
<1>2. QED
  BY <1>1, Added DEF TextInv, EachOnce

LEMMA WindowSendsStep ==
  ASSUME TypeOK, TextInv, WindowSends
  PROVE  Orderly
<1> DEFINE X == Own(window)
<1>1. /\ UNCHANGED <<typed, settled, queue, pumps, stops, answers>>
      /\ Send(window.text) /\ WindowIs("idle", NoText)
  BY DEF WindowSends
<1>2. window.text.id \notin Ids(delivers) /\ X \subseteq At["window"]
  <2>1. \A n \in Ids({window}) : n \notin Ids(delivers)
    BY AtIs, Elsewhere DEF Place
  <2>2. X \subseteq Ids({window}) /\ 0 \notin Ids(delivers)
    BY DEF Ids, Own
  <2>3. QED
    BY <2>1, <2>2, AtIs DEF Ids
<1>3. Ids(delivers)' = Ids(delivers) \cup X /\ Once(delivers)'
  BY <1>1, <1>2, SendDelivers DEF Own
<1>4. Ids({window})' = Ids({window}) \ X /\ window'.text = NoText
  BY <1>1 DEF WindowIs, Ids, Own, NoText
<1> HIDE DEF X
<1>5. EachOnce' /\ HandsEmpty'
  BY <1>1, <1>3, <1>4, Untouched DEF EachOnce, HandsEmpty, PumpsKeep, StopsKeep, AnswersKeep,
     QueueKeeps, RestKeeps
<1>6. At'["window"] = At["window"] \ X /\ At'["delivers"] = At["delivers"] \cup X
  BY <1>3, <1>4, AtIs
<1>7. \A p \in Place \ {"window", "delivers"} : At'[p] = At[p]
  <2>1. /\ At'["queue"] = At["queue"] /\ At'["pumps"] = At["pumps"]
        /\ At'["stops"] = At["stops"] /\ At'["rest"] = At["rest"]
        /\ At'["answers"] = At["answers"]
    BY <1>1, AtIs, Untouched DEF QueueKeeps, RestKeeps
  <2>2. QED
    BY <2>1 DEF Place
<1>8. "window" \in Place /\ "delivers" \in Place
  BY DEF Place
<1>9. QED
  BY <1>1, <1>2, <1>5, <1>6, <1>7, <1>8, SomeMove

LEMMA StopSendsStep ==
  ASSUME TypeOK, TextInv, NEW t \in stops, StopSends(t)
  PROVE  Orderly
<1> DEFINE X == Own(t)
<1>1. /\ UNCHANGED <<typed, settled, queue, window, pumps, answers>>
      /\ Send(t.text) /\ stops' = stops \ {t}
  BY DEF StopSends
<1>2. t.text.id \notin Ids(delivers) /\ X \subseteq At["stops"]
  <2>1. \A n \in Ids(stops) : n \notin Ids(delivers)
    BY AtIs, Elsewhere DEF Place
  <2>2. X \subseteq Ids(stops) /\ 0 \notin Ids(delivers)
    BY OwnAt DEF Ids
  <2>3. QED
    BY <2>1, <2>2, AtIs DEF Own
<1>3. Ids(delivers)' = Ids(delivers) \cup X /\ Once(delivers)'
  BY <1>1, <1>2, SendDelivers DEF Own
<1>4. Ids(stops)' = Ids(stops) \ X /\ Once(stops)'
  <2>1. Ids(stops)' = Ids(stops) \ {t.text.id} /\ Once(stops)'
    BY <1>1, Removed DEF TextInv, EachOnce
  <2>2. QED
    BY <2>1 DEF Own, Ids
<1>5. \A u \in stops' : u.pc # "send" => u.text = NoText
  BY <1>1 DEF TextInv, HandsEmpty
<1> HIDE DEF X
<1>6. EachOnce' /\ HandsEmpty'
  BY <1>1, <1>3, <1>4, <1>5, Untouched DEF EachOnce, HandsEmpty, WindowKeeps, PumpsKeep,
     AnswersKeep, QueueKeeps, RestKeeps
<1>7. At'["stops"] = At["stops"] \ X /\ At'["delivers"] = At["delivers"] \cup X
  BY <1>3, <1>4, AtIs
<1>8. \A p \in Place \ {"stops", "delivers"} : At'[p] = At[p]
  <2>1. /\ At'["queue"] = At["queue"] /\ At'["pumps"] = At["pumps"]
        /\ At'["window"] = At["window"] /\ At'["rest"] = At["rest"]
        /\ At'["answers"] = At["answers"]
    BY <1>1, AtIs, Untouched DEF QueueKeeps, RestKeeps
  <2>2. QED
    BY <2>1 DEF Place
<1>9. "stops" \in Place /\ "delivers" \in Place
  BY DEF Place
<1>10. QED
  BY <1>1, <1>2, <1>6, <1>7, <1>8, <1>9, SomeMove

LEMMA PumpSendsStep ==
  ASSUME TypeOK, TextInv, NEW p \in pumps, PumpSends(p)
  PROVE  Orderly
<1> DEFINE X == Own(p)
           q == [p EXCEPT !.pc = "idle", !.text = NoText]
<1>1. /\ UNCHANGED <<typed, settled, queue, window, stops, answers>>
      /\ Send(p.text) /\ pumps' = (pumps \ {p}) \cup {q}
  BY DEF PumpSends
<1>2. q.text = NoText /\ q.text.id = 0
  <2>1. p \in Pump
    BY DEF TypeOK, TasksTypeOK
  <2>2. QED
    BY <2>1 DEF Pump, NoText
<1> HIDE DEF q
<1>3. p.text.id \notin Ids(delivers) /\ X \subseteq At["pumps"]
  <2>1. \A n \in Ids(pumps) : n \notin Ids(delivers)
    BY AtIs, Elsewhere DEF Place
  <2>2. X \subseteq Ids(pumps) /\ 0 \notin Ids(delivers)
    BY OwnAt DEF Ids
  <2>3. QED
    BY <2>1, <2>2, AtIs DEF Own
<1>4. Ids(delivers)' = Ids(delivers) \cup X /\ Once(delivers)'
  BY <1>1, <1>3, SendDelivers DEF Own
<1>5. Ids(pumps)' = Ids(pumps) \ X /\ Once(pumps)'
  <2>1. Ids(pumps)' = Ids(pumps) \ {p.text.id} /\ Once(pumps)'
    BY <1>1, <1>2, Emptied DEF TextInv, EachOnce
  <2>2. QED
    BY <2>1 DEF Own, Ids
<1>6. \A u \in pumps' : u.pc # "send" => u.text = NoText
  BY <1>1, <1>2 DEF TextInv, HandsEmpty
<1> HIDE DEF X
<1>7. EachOnce' /\ HandsEmpty'
  BY <1>1, <1>4, <1>5, <1>6, Untouched DEF EachOnce, HandsEmpty, WindowKeeps, StopsKeep,
     AnswersKeep, QueueKeeps, RestKeeps
<1>8. At'["pumps"] = At["pumps"] \ X /\ At'["delivers"] = At["delivers"] \cup X
  BY <1>4, <1>5, AtIs
<1>9. \A r \in Place \ {"pumps", "delivers"} : At'[r] = At[r]
  <2>1. /\ At'["queue"] = At["queue"] /\ At'["stops"] = At["stops"]
        /\ At'["window"] = At["window"] /\ At'["rest"] = At["rest"]
        /\ At'["answers"] = At["answers"]
    BY <1>1, AtIs, Untouched DEF QueueKeeps, RestKeeps
  <2>2. QED
    BY <2>1 DEF Place
<1>10. "pumps" \in Place /\ "delivers" \in Place
  BY DEF Place
<1>11. QED
  BY <1>1, <1>3, <1>7, <1>8, <1>9, <1>10, SomeMove

(* after_turn(): the next prompt, if one is taken, leaves the queue. *)
LEMMA AfterTurnTakes ==
  ASSUME TypeOK, TextInv, AfterTurn
  PROVE  LET X == {NextQueued.id} \ {0} IN
         /\ QueuedIds' = QueuedIds \ X /\ QueueOnce'
         /\ X \subseteq QueuedIds
         /\ \A p \in Place \ {"queue"} : X \cap At[p] = {}
<1> DEFINE X == {NextQueued.id} \ {0}
<1>1. QueuedIds' = QueuedIds \ X /\ QueueOnce' /\ X \subseteq QueuedIds
  <2>1. CASE NextQueued = NoText
    <3>1. UNCHANGED queue /\ X = {}
      BY <2>1 DEF AfterTurn, NoText
    <3>2. QED
      BY <3>1, Untouched DEF QueueKeeps
  <2>2. CASE NextQueued # NoText
    <3>1. queue # <<>> /\ NextQueued = Head(queue) /\ queue' = Tail(queue)
      BY <2>2 DEF AfterTurn, NextQueued
    <3>2. /\ QueuedIds' = QueuedIds \ {NextQueued.id} /\ QueueOnce'
          /\ NextQueued.id \in QueuedIds
      BY <3>1, QueueAfterTail DEF TextInv, EachOnce
    <3>3. NextQueued.id # 0
      BY <3>2, AtIs, Elsewhere DEF Place
    <3>4. QED
      BY <3>2, <3>3
  <2>3. QED
    BY <2>1, <2>2
<1>2. \A p \in Place \ {"queue"} : X \cap At[p] = {}
  <2>1. X \subseteq At["queue"] /\ "queue" \in Place
    BY <1>1, AtIs DEF Place
  <2> HIDE DEF X
  <2>2. QED
    BY <2>1 DEF TextInv, Apart
<1>3. QED
  BY <1>1, <1>2

LEMMA WindowAfterTurnStep ==
  ASSUME TypeOK, TextInv, WindowAfterTurn
  PROVE  Orderly
<1> DEFINE X == {NextQueued.id} \ {0}
<1>1. /\ UNCHANGED <<typed, settled, pumps, stops, delivers, answers>>
      /\ AfterTurn /\ window.pc = "after"
      /\ IF NextQueued = NoText THEN WindowIs("idle", NoText) ELSE WindowIs("send", NextQueued)
  BY DEF WindowAfterTurn
<1>2. /\ QueuedIds' = QueuedIds \ X /\ QueueOnce' /\ X \subseteq At["queue"]
  BY <1>1, AfterTurnTakes, AtIs
<1>3. window.text = NoText /\ window'.text = NextQueued
  BY <1>1 DEF WindowIs, TextInv, HandsEmpty
<1>4. window'.pc \notin {"send", "answer"} => window'.text = NoText
  BY <1>1 DEF WindowIs
<1>5. Ids({window})' = Ids({window}) \cup X
  BY <1>3 DEF Ids, NoText
<1> HIDE DEF X
<1>6. EachOnce' /\ HandsEmpty'
  BY <1>1, <1>2, <1>4, Untouched DEF EachOnce, HandsEmpty, PumpsKeep, StopsKeep, DeliversKeep,
     AnswersKeep, RestKeeps
<1>7. At'["queue"] = At["queue"] \ X /\ At'["window"] = At["window"] \cup X
  BY <1>2, <1>5, AtIs
<1>8. \A r \in Place \ {"queue", "window"} : At'[r] = At[r]
  <2>1. /\ At'["pumps"] = At["pumps"] /\ At'["stops"] = At["stops"]
        /\ At'["delivers"] = At["delivers"] /\ At'["rest"] = At["rest"]
        /\ At'["answers"] = At["answers"]
    BY <1>1, AtIs, Untouched DEF RestKeeps
  <2>2. QED
    BY <2>1 DEF Place
<1>9. "queue" \in Place /\ "window" \in Place
  BY DEF Place
<1>10. QED
  BY <1>1, <1>2, <1>6, <1>7, <1>8, <1>9, SomeMove

LEMMA StopAfterTurnStep ==
  ASSUME TypeOK, TextInv, NEW t \in stops, StopAfterTurn(t)
  PROVE  Orderly
<1> DEFINE X == {NextQueued.id} \ {0}
           u == [t EXCEPT !.pc = "send", !.text = NextQueued]
<1>1. /\ UNCHANGED <<typed, settled, window, pumps, delivers, answers>>
      /\ AfterTurn /\ t.pc = "after"
      /\ stops' = IF NextQueued = NoText THEN stops \ {t} ELSE (stops \ {t}) \cup {u}
  BY DEF StopAfterTurn
<1>2. /\ QueuedIds' = QueuedIds \ X /\ QueueOnce' /\ X \subseteq At["queue"]
      /\ X \cap At["stops"] = {}
  BY <1>1, AfterTurnTakes, AtIs DEF Place
<1>3. u.text = NextQueued /\ u.pc = "send"
  <2>1. t \in StopTask
    BY DEF TypeOK, TasksTypeOK
  <2>2. QED
    BY <2>1 DEF StopTask
<1> HIDE DEF u
<1>4. t.text = NoText /\ t.text.id = 0
  BY <1>1 DEF TextInv, HandsEmpty, NoText
<1>5. Ids(stops)' = Ids(stops) \cup X /\ Once(stops)'
  <2>1. CASE NextQueued = NoText
    <3>1. Ids(stops)' = Ids(stops) \ {0} /\ Once(stops)'
      BY <1>1, <1>4, <2>1, Removed DEF TextInv, EachOnce
    <3>2. X = {}
      BY <2>1 DEF NoText
    <3>3. QED
      BY <3>1, <3>2 DEF Ids
  <2>2. CASE NextQueued # NoText
    <3>1. stops' = (stops \ {t}) \cup {u}
      BY <1>1, <2>2
    <3>2. NextQueued.id \notin Ids(stops)
      BY <1>2, AtIs DEF Ids
    <3>3. QED
      BY <1>3, <1>4, <3>1, <3>2, Filled DEF TextInv, EachOnce
  <2>3. QED
    BY <2>1, <2>2
<1>6. \A v \in stops' : v.pc # "send" => v.text = NoText
  BY <1>1, <1>3 DEF TextInv, HandsEmpty
<1> HIDE DEF X
<1>7. EachOnce' /\ HandsEmpty'
  BY <1>1, <1>2, <1>5, <1>6, Untouched DEF EachOnce, HandsEmpty, WindowKeeps, PumpsKeep,
     DeliversKeep, AnswersKeep, RestKeeps
<1>8. At'["queue"] = At["queue"] \ X /\ At'["stops"] = At["stops"] \cup X
  BY <1>2, <1>5, AtIs
<1>9. \A r \in Place \ {"queue", "stops"} : At'[r] = At[r]
  <2>1. /\ At'["pumps"] = At["pumps"] /\ At'["window"] = At["window"]
        /\ At'["delivers"] = At["delivers"] /\ At'["rest"] = At["rest"]
        /\ At'["answers"] = At["answers"]
    BY <1>1, AtIs, Untouched DEF RestKeeps
  <2>2. QED
    BY <2>1 DEF Place
<1>10. "queue" \in Place /\ "stops" \in Place
  BY DEF Place
<1>11. QED
  BY <1>1, <1>2, <1>7, <1>8, <1>9, <1>10, SomeMove

LEMMA PumpAfterTurnStep ==
  ASSUME TypeOK, TextInv, NEW p \in pumps, PumpAfterTurn(p)
  PROVE  Orderly
<1> DEFINE X == {NextQueued.id} \ {0}
           q == [p EXCEPT !.pc = IF NextQueued = NoText THEN "idle" ELSE "send",
                          !.text = NextQueued]
<1>1. /\ UNCHANGED <<typed, settled, window, stops, delivers, answers>>
      /\ AfterTurn /\ p.pc = "after"
      /\ pumps' = (pumps \ {p}) \cup {q}
  BY DEF PumpAfterTurn
<1>2. /\ QueuedIds' = QueuedIds \ X /\ QueueOnce' /\ X \subseteq At["queue"]
      /\ X \cap At["pumps"] = {}
  BY <1>1, AfterTurnTakes, AtIs DEF Place
<1>3. q.text = NextQueued /\ (q.pc # "send" => q.text = NoText)
  <2>1. p \in Pump
    BY DEF TypeOK, TasksTypeOK
  <2>2. QED
    BY <2>1 DEF Pump
<1> HIDE DEF q
<1>4. p.text.id = 0
  BY <1>1 DEF TextInv, HandsEmpty, NoText
<1>5. NextQueued.id \notin Ids(pumps)
  BY <1>2, AtIs DEF Ids
<1>6. Ids(pumps)' = Ids(pumps) \cup X /\ Once(pumps)'
  BY <1>1, <1>3, <1>4, <1>5, Filled DEF TextInv, EachOnce
<1>7. \A v \in pumps' : v.pc # "send" => v.text = NoText
  BY <1>1, <1>3 DEF TextInv, HandsEmpty
<1> HIDE DEF X
<1>8. EachOnce' /\ HandsEmpty'
  BY <1>1, <1>2, <1>6, <1>7, Untouched DEF EachOnce, HandsEmpty, WindowKeeps, StopsKeep,
     DeliversKeep, AnswersKeep, RestKeeps
<1>9. At'["queue"] = At["queue"] \ X /\ At'["pumps"] = At["pumps"] \cup X
  BY <1>2, <1>6, AtIs
<1>10. \A r \in Place \ {"queue", "pumps"} : At'[r] = At[r]
  <2>1. /\ At'["stops"] = At["stops"] /\ At'["window"] = At["window"]
        /\ At'["delivers"] = At["delivers"] /\ At'["rest"] = At["rest"]
        /\ At'["answers"] = At["answers"]
    BY <1>1, AtIs, Untouched DEF RestKeeps
  <2>2. QED
    BY <2>1 DEF Place
<1>11. "queue" \in Place /\ "pumps" \in Place
  BY DEF Place
<1>12. QED
  BY <1>1, <1>2, <1>8, <1>9, <1>10, <1>11, SomeMove

(* A delivery or an answer ends: its text comes to rest. *)
LEMMA DeliveryEnds ==
  ASSUME TypeOK, TextInv, NEW d \in delivers, delivers' = delivers \ {d},
         NEW where, Settle({d.text.id}, where),
         UNCHANGED <<typed, queue, window, pumps, stops, answers>>
  PROVE  Orderly
<1> DEFINE X == Own(d)
<1>1. X \subseteq At["delivers"] /\ X \cap At["rest"] = {}
  <2>1. X \subseteq At["delivers"]
    BY OwnAt, AtIs
  <2> HIDE DEF X
  <2>2. QED
    BY <2>1 DEF TextInv, Apart, Place
<1>2. Resting' = Resting \cup {d.text.id} /\ SettledOnce'
  <2>1. {d.text.id} \cap Resting \subseteq {0}
    BY <1>1, AtIs DEF Own
  <2>2. QED
    BY <2>1, RestAfterSettle DEF TextInv, EachOnce
<1>3. Ids(delivers)' = Ids(delivers) \ X /\ Once(delivers)'
  <2>1. Ids(delivers)' = Ids(delivers) \ {d.text.id} /\ Once(delivers)'
    BY Removed DEF TextInv, EachOnce
  <2>2. QED
    BY <2>1 DEF Own, Ids
<1>4. At'["delivers"] = At["delivers"] \ X /\ At'["rest"] = At["rest"] \cup X
  BY <1>2, <1>3, AtIs DEF Own
<1> HIDE DEF X
<1>5. EachOnce' /\ HandsEmpty'
  BY <1>2, <1>3, Untouched DEF EachOnce, HandsEmpty, WindowKeeps, PumpsKeep, StopsKeep,
     AnswersKeep, QueueKeeps
<1>6. \A r \in Place \ {"delivers", "rest"} : At'[r] = At[r]
  <2>1. /\ At'["pumps"] = At["pumps"] /\ At'["stops"] = At["stops"]
        /\ At'["window"] = At["window"] /\ At'["queue"] = At["queue"]
        /\ At'["answers"] = At["answers"]
    BY AtIs, Untouched DEF QueueKeeps
  <2>2. QED
    BY <2>1 DEF Place
<1>7. "delivers" \in Place /\ "rest" \in Place
  BY DEF Place
<1>8. QED
  BY <1>1, <1>4, <1>5, <1>6, <1>7, SomeMove

LEMMA DeliveryEndSteps ==
  ASSUME TypeOK, TextInv, NEW d \in delivers, DeliverSubmits(d) \/ DeliverTakesBack(d)
  PROVE  Orderly
<1>1. CASE DeliverSubmits(d)
  <2>1. UNCHANGED <<typed, queue, window, pumps, stops, answers>>
    BY <1>1 DEF DeliverSubmits
  <2>2. CASE delivers' = delivers \ {d} /\ Settle({d.text.id}, "sent")
    BY <2>1, <2>2, DeliveryEnds
  <2>3. CASE DeliverIs(d, "back") /\ UNCHANGED settled
    <3> DEFINE e == [d EXCEPT !.pc = "back"]
    <3>1. e.text = d.text
      BY DEF TypeOK, TasksTypeOK, DeliverTask
    <3>2. delivers' = (delivers \ {d}) \cup {e}
      BY <2>3 DEF DeliverIs
    <3> HIDE DEF e
    <3>3. DeliversKeep
      BY <3>1, <3>2, DeliverRewritten
    <3>4. QED
      BY <2>1, <2>3, <3>3, DeliversAlone
  <2>4. QED
    BY <1>1, <2>2, <2>3 DEF DeliverSubmits
<1>2. CASE DeliverTakesBack(d)
  BY <1>2, DeliveryEnds DEF DeliverTakesBack, Restore
<1>3. QED
  BY <1>1, <1>2

(* The answer was taken, and its text comes to rest, or nobody has it. *)
LEMMA AnswerEndsStep ==
  ASSUME TypeOK, TextInv, NEW a \in answers, AnswerEnds(a)
  PROVE  Orderly
<1> DEFINE X == Own(a)
<1>1. /\ UNCHANGED <<typed, queue, window, pumps, stops, delivers>>
      /\ answers' = answers \ {a}
      /\ Settle({a.text.id}, "answered") \/ (RequestFails(a.inst) /\ UNCHANGED settled)
  BY DEF AnswerEnds
<1>2. X \subseteq At["answers"] /\ X \cap At["rest"] = {}
  <2>1. X \subseteq At["answers"]
    BY OwnAt, AtIs
  <2> HIDE DEF X
  <2>2. QED
    BY <2>1 DEF TextInv, Apart, Place
<1>3. Ids(answers)' = Ids(answers) \ X /\ Once(answers)'
  <2>1. Ids(answers)' = Ids(answers) \ {a.text.id} /\ Once(answers)'
    BY <1>1, Removed DEF TextInv, EachOnce
  <2>2. QED
    BY <2>1 DEF Own, Ids
<1>4. \A r \in Place \ {"answers", "rest"} : At'[r] = At[r]
  <2>1. /\ At'["pumps"] = At["pumps"] /\ At'["stops"] = At["stops"]
        /\ At'["window"] = At["window"] /\ At'["queue"] = At["queue"]
        /\ At'["delivers"] = At["delivers"]
    BY <1>1, AtIs, Untouched DEF QueueKeeps
  <2>2. QED
    BY <2>1 DEF Place
<1>5. "answers" \in Place /\ "rest" \in Place /\ At'["answers"] = At["answers"] \ X
  BY <1>3, AtIs DEF Place
<1>6. CASE Settle({a.text.id}, "answered")
  <2>1. Resting' = Resting \cup {a.text.id} /\ SettledOnce'
    <3>1. {a.text.id} \cap Resting \subseteq {0}
      BY <1>2, AtIs DEF Own
    <3>2. QED
      BY <1>6, <3>1, RestAfterSettle DEF TextInv, EachOnce
  <2>2. At'["rest"] = At["rest"] \cup X
    BY <2>1, AtIs DEF Own
  <2> HIDE DEF X
  <2>3. EachOnce' /\ HandsEmpty'
    BY <1>1, <1>3, <2>1, Untouched DEF EachOnce, HandsEmpty, WindowKeeps, PumpsKeep, StopsKeep,
       DeliversKeep, QueueKeeps
  <2>4. QED
    BY <1>1, <1>2, <1>4, <1>5, <2>2, <2>3, SomeMove
<1>7. CASE RequestFails(a.inst) /\ UNCHANGED settled
  <2> HIDE DEF X
  <2>1. EachOnce' /\ HandsEmpty'
    BY <1>1, <1>3, <1>7, Untouched DEF EachOnce, HandsEmpty, WindowKeeps, PumpsKeep, StopsKeep,
       DeliversKeep, QueueKeeps, RestKeeps
  <2>2. At'["rest"] = At["rest"]
    BY <1>7, AtIs, Untouched DEF RestKeeps
  <2>3. ASSUME NEW p \in Place
        PROVE  At'[p] \subseteq At[p]
    BY <1>4, <1>5, <2>2
  <2>4. NumberGoes
    BY <1>1, <2>3 DEF NumberGoes
  <2>5. AnswerFails
    BY <1>7 DEF AnswerFails
  <2>6. QED
    BY <2>1, <2>4, <2>5 DEF Orderly, TextStep
<1>8. QED
  BY <1>1, <1>6, <1>7

(* answer(): with the question gone nobody takes the text. *)
LEMMA WindowAnswersStep ==
  ASSUME TypeOK, TextInv, WindowAnswers
  PROVE  Orderly
<1> DEFINE X == Own(window)
           a == [text |-> window.text, inst |-> Current]
<1>1. /\ UNCHANGED <<typed, settled, queue, pumps, stops, delivers>>
      /\ WindowIs("idle", NoText)
      /\ IF clarify = None THEN UNCHANGED answers ELSE answers' = answers \cup {a}
  BY DEF WindowAnswers
<1>2. Ids({window})' = {} /\ window'.text = NoText /\ Ids({window}) = X
  BY <1>1 DEF WindowIs, Ids, NoText, Own
<1>3. X \subseteq At["window"] /\ X \cap Ids(answers) = {}
  <2>1. X \subseteq At["window"]
    BY <1>2, AtIs
  <2> HIDE DEF X
  <2>2. X \cap At["answers"] = {}
    BY <2>1 DEF TextInv, Apart, Place
  <2>3. QED
    BY <2>1, <2>2, AtIs
<1>4. a.text = window.text
  OBVIOUS
<1> HIDE DEF a
<1>5. HandsEmpty'
  BY <1>1, <1>2, Untouched DEF HandsEmpty, PumpsKeep, StopsKeep
<1>6. At'["window"] = {} /\ At["window"] = X
  BY <1>2, AtIs
<1>7. \A r \in Place \ {"window", "answers"} : At'[r] = At[r]
  <2>1. /\ At'["pumps"] = At["pumps"] /\ At'["stops"] = At["stops"]
        /\ At'["rest"] = At["rest"] /\ At'["queue"] = At["queue"]
        /\ At'["delivers"] = At["delivers"]
    BY <1>1, AtIs, Untouched DEF QueueKeeps, RestKeeps
  <2>2. QED
    BY <2>1 DEF Place
<1>8. CASE clarify = None
  <2>1. EachOnce'
    BY <1>1, <1>8, Untouched DEF EachOnce, PumpsKeep, StopsKeep, DeliversKeep, AnswersKeep,
       QueueKeeps, RestKeeps
  <2>2. At'["answers"] = At["answers"]
    BY <1>1, <1>8, AtIs
  <2>3. NumberGoes
    <3>1. ASSUME NEW p \in Place
          PROVE  At'[p] \subseteq At[p]
      BY <1>6, <1>7, <2>2
    <3>2. QED
      BY <1>1, <3>1 DEF NumberGoes
  <2>4. QED
    BY <1>5, <1>8, <2>1, <2>3 DEF Orderly, TextStep, AnswerIsLate
<1>9. CASE clarify # None
  <2>1. answers' = answers \cup {a}
    BY <1>1, <1>9
  <2>2. a.text.id \notin Ids(answers)
    BY <1>3, <1>4 DEF Own, Ids
  <2>3. Ids(answers)' = Ids(answers) \cup X /\ Once(answers)'
    BY <1>4, <2>1, <2>2, Added DEF TextInv, EachOnce, Own
  <2> HIDE DEF X
  <2>4. EachOnce'
    BY <1>1, <2>3, Untouched DEF EachOnce, PumpsKeep, StopsKeep, DeliversKeep,
       QueueKeeps, RestKeeps
  <2>5. At'["answers"] = At["answers"] \cup X /\ At'["window"] = At["window"] \ X
    BY <1>6, <2>3, AtIs
  <2>6. "window" \in Place /\ "answers" \in Place
    BY DEF Place
  <2>7. QED
    BY <1>1, <1>3, <1>5, <1>7, <2>4, <2>5, <2>6, SomeMove
<1>10. QED
  BY <1>8, <1>9

(* submit(): a text that nobody had, in the queue or in the window's hand. *)
LEMMA SubmitStep ==
  ASSUME TypeOK, TextInv, Submit
  PROVE  Orderly
<1> DEFINE text == [id |-> typed + 1, home |-> stored]
<1>1. /\ UNCHANGED <<settled, pumps, stops, delivers, answers>>
      /\ typed' = typed + 1 /\ window.pc = "idle"
      /\ \/ queue' = Append(queue, text) /\ UNCHANGED window
         \/ WindowIs("answer", text) /\ UNCHANGED queue
         \/ WindowIs("send", text) /\ UNCHANGED queue
  BY DEF Submit, WindowIdle
<1>2. text \in Text /\ text.id = typed + 1 /\ typed \in Nat
  BY DEF Text, TypeOK, HistoryTypeOK, ViewTypeOK
<1> HIDE DEF text
<1>3. \A p \in Place : text.id \notin At[p]
  BY <1>2 DEF TextInv, Numbered
<1>4. CASE queue' = Append(queue, text) /\ UNCHANGED window
  <2>1. QueuedIds' = QueuedIds \cup {typed + 1} /\ QueueOnce'
    <3>1. text.id \notin QueuedIds
      BY <1>3, AtIs DEF Place
    <3>2. QED
      BY <1>2, <1>4, <3>1, QueueAfterAppend DEF TextInv, EachOnce
  <2>2. EachOnce' /\ HandsEmpty'
    BY <1>1, <1>4, <2>1, Untouched DEF EachOnce, HandsEmpty, WindowKeeps, PumpsKeep, StopsKeep,
       DeliversKeep, AnswersKeep, RestKeeps
  <2>3. ASSUME NEW p \in Place
        PROVE  At'[p] = IF p = "queue" THEN At[p] \cup {typed + 1} ELSE At[p]
    <3>1. /\ At'["queue"] = At["queue"] \cup {typed + 1}
          /\ At'["window"] = At["window"] /\ At'["pumps"] = At["pumps"]
          /\ At'["stops"] = At["stops"] /\ At'["delivers"] = At["delivers"]
          /\ At'["answers"] = At["answers"] /\ At'["rest"] = At["rest"]
      BY <1>1, <1>4, <2>1, AtIs, Untouched DEF RestKeeps
    <3>2. QED
      BY <3>1 DEF Place
  <2>4. NumberIsNew("queue")
    BY <1>1, <2>3 DEF NumberIsNew
  <2>5. QED
    BY <2>2, <2>4 DEF Orderly, TextStep, Place
<1>5. CASE (\E pc \in {"answer", "send"} : WindowIs(pc, text)) /\ UNCHANGED queue
  <2>1. window.text = NoText /\ window'.text = text /\ window'.pc \in {"answer", "send"}
    BY <1>1, <1>5 DEF WindowIs, TextInv, HandsEmpty
  <2>2. Ids({window})' = Ids({window}) \cup {typed + 1}
    BY <1>2, <2>1 DEF Ids, NoText
  <2>3. EachOnce' /\ HandsEmpty'
    BY <1>1, <1>5, <2>1, Untouched DEF EachOnce, HandsEmpty, PumpsKeep, StopsKeep,
       DeliversKeep, AnswersKeep, QueueKeeps, RestKeeps
  <2>4. ASSUME NEW p \in Place
        PROVE  At'[p] = IF p = "window" THEN At[p] \cup {typed + 1} ELSE At[p]
    <3>1. /\ At'["window"] = At["window"] \cup {typed + 1}
          /\ At'["queue"] = At["queue"] /\ At'["pumps"] = At["pumps"]
          /\ At'["stops"] = At["stops"] /\ At'["delivers"] = At["delivers"]
          /\ At'["answers"] = At["answers"] /\ At'["rest"] = At["rest"]
      BY <1>1, <1>5, <2>2, AtIs, Untouched DEF QueueKeeps, RestKeeps
    <3>2. QED
      BY <3>1 DEF Place
  <2>5. NumberIsNew("window")
    BY <1>1, <2>4 DEF NumberIsNew
  <2>6. QED
    BY <2>3, <2>5 DEF Orderly, TextStep, Place
<1>6. QED
  BY <1>1, <1>4, <1>5

-----------------------------------------------------------------------------
(* Every step. *)

LEMMA StepOrderly ==
  ASSUME TypeOK, TextInv, [Next]_vars
  PROVE  Orderly
<1>1. CASE ConnectTaskNext \/ EnsureStreamNext \/ RetryNext \/ RestartNext \/ OpenTaskNext
  BY <1>1, ConnectionSteps, ChannelSteps, LeavingSteps DEF ConnectTaskNext, EnsureStreamNext
<1>2. CASE DeliverNext
  BY <1>2, DeliverySteps, DeliveryEndSteps DEF DeliverNext
<1>3. CASE StopTaskNext
  BY <1>3, StoppingSteps, StopAfterTurnStep, StopSendsStep DEF StopTaskNext
<1>4. CASE AdapterTaskNext
  BY <1>4, ChannelSteps, ConnectionSteps, AnswerEndsStep DEF AdapterTaskNext
<1>5. CASE PumpNext
  BY <1>5, HandlingSteps, PumpAfterTurnStep, PumpSendsStep DEF PumpNext
<1>6. CASE WindowContinues
  BY <1>6, WindowSteps, WindowSendsStep, WindowAnswersStep, WindowAfterTurnStep
     DEF WindowContinues
<1>7. CASE CommandNext
  BY <1>7, ConnectionSteps, LeavingSteps, SubmitStep, StoppingSteps, SendNowStep, UnqueueStep
     DEF CommandNext
<1>8. CASE StreamNext \/ ListFails \/ UNCHANGED vars
  BY <1>8, ChannelSteps, ConnectionSteps
<1>9. QED
  BY <1>1, <1>2, <1>3, <1>4, <1>5, <1>6, <1>7, <1>8 DEF Next, TaskNext, Idle

LEMMA StepKeepsTexts ==
  ASSUME TypeOK, TextInv, [Next]_vars
  PROVE  TextInv' /\ TextStep
<1>1. Orderly
  BY StepOrderly
<1>2. QED
  BY <1>1, ApartAfterStep DEF Orderly, TextInv

LEMMA InitTexts ==
  ASSUME Init
  PROVE  TextInv
<1>1. /\ queue = <<>> /\ settled = {} /\ pumps = {} /\ stops = {} /\ delivers = {}
      /\ answers = {} /\ window.text = NoText
  BY DEF Init
<1>2. EachOnce /\ HandsEmpty
  BY <1>1 DEF EachOnce, HandsEmpty, QueueOnce, SettledOnce, Once
<1>3. ASSUME NEW p \in Place
      PROVE  At[p] = {}
  <2>1. QueuedIds = {} /\ Resting = {} /\ Ids({}) = {} /\ Ids({window}) = {}
    BY <1>1 DEF QueuedIds, Resting, Ids, NoText
  <2>2. QED
    BY <1>1, <2>1, AtIs DEF Place
<1>4. QED
  BY <1>2, <1>3 DEF TextInv, Apart, Numbered

LEMMA TextsInOnePlace == Spec => []TextInv
<1>1. Init => TextInv
  BY InitTexts
<1>2. TypeOK /\ TextInv /\ [Next]_vars => TextInv'
  BY StepKeepsTexts
<1>3. QED
  BY <1>1, <1>2, TypeCorrect, PTL DEF Spec

-----------------------------------------------------------------------------
(* The prompts a backend took. *)

(* It took each once, and the text came to rest or is on its way back to the *)
(* composer, its acknowledgement lost.                                       *)
TakenInv ==
  /\ \A r \in delivered :
       \/ r.text.id = 0 \/ r.text.id \in Resting
       \/ \E d \in delivers : d.pc = "back" /\ d.text.id = r.text.id
  /\ \A q, r \in delivered : q.text.id = r.text.id /\ q.text.id # 0 => q = r

(* A step that takes no prompt and ends no delivery. *)
TakenStay ==
  /\ UNCHANGED delivered
  /\ settled \subseteq settled'
  /\ \A d \in delivers : d.pc = "back" => d \in delivers'

LEMMA TakenAfterStay ==
  ASSUME TakenInv, TakenStay
  PROVE  TakenInv'
<1>1. Resting \subseteq Resting'
  BY DEF TakenStay, Resting
<1>2. QED
  BY <1>1 DEF TakenInv, TakenStay

LEMMA OthersTakeNothing ==
  ASSUME [Next]_vars, ~DeliverNext
  PROVE  TakenStay
<1>1. CASE ConnectTaskNext \/ EnsureStreamNext \/ RetryNext \/ RestartNext \/ OpenTaskNext
  <2>1. CASE ConnectTaskNext
    BY <2>1 DEF ConnectTaskNext, ConnectProbed, ConnectAttach, ConnectEnsured, ConnectRetry,
       ConnectReopen, ConnectOpen, Open, ReturnPendingToComposer, Settle, TakenStay
  <2>2. CASE EnsureStreamNext
    BY <2>2 DEF EnsureStreamNext, EnsureBegin, EnsureDial, EnsureSettle, TakenStay
  <2>3. CASE RetryNext \/ RestartNext
    BY <2>3 DEF RetryNext, RetryFires, RetryConnects, RestartNext, ServerRestarted,
       RestartConnects, TakenStay
  <2>4. CASE OpenTaskNext
    BY <2>4 DEF OpenTaskNext, OpenAttach, OpenEnsured, OpenHistory, OpenResume, OpenResumed,
       OpenStreamLost, OpenRetry, TakenStay
  <2>5. QED
    BY <1>1, <2>1, <2>2, <2>3, <2>4
<1>2. CASE AdapterTaskNext \/ ListFails \/ StreamNext \/ UNCHANGED vars
  <2>1. CASE AdapterTaskNext
    BY <2>1 DEF AdapterTaskNext, AdapterDisconnects, ClearScope, AnswerEnds, Settle, TakenStay
  <2>2. CASE ListFails \/ UNCHANGED vars
    BY <2>2 DEF ListFails, TakenStay, vars
  <2>3. CASE StreamNext
    BY <2>3 DEF StreamNext, StreamConnects, StreamFails, StreamDrops, StreamFrame,
       StreamQuestion, StreamSessionInfo, Reports, TakenStay
  <2>4. QED
    BY <1>2, <2>1, <2>2, <2>3
<1>3. CASE StopTaskNext \/ PumpNext
  BY <1>3 DEF StopTaskNext, StopInterrupts, StopGraceEnds, StopAfterTurn, StopSends, Send,
     PumpNext, DropsEvent, HandleConnected, HandleSessionInfo, HandleClarify, HandleLost,
     HandleTurn, PumpStreamLost, PumpRetry, PumpAfterTurn, PumpSends, TakenStay
<1>4. CASE WindowContinues
  BY <1>4 DEF WindowContinues, WindowConnects, WindowClearsScope, WindowSends, WindowAnswers,
     WindowStops, WindowAfterTurn, Send, TakenStay
<1>5. CASE CommandNext
  BY <1>5 DEF CommandNext, CommandConnect, DisableBackend, ApplyWorkspace, SwitchBackend,
     OpenSession, Open, NewChat, Submit, CommandStop, DismissClarify, SendQueuedNow, Unqueue,
     ReturnPendingToComposer, Settle, TakenStay
<1>6. QED
  BY <1>1, <1>2, <1>3, <1>4, <1>5 DEF Next, TaskNext, Idle

(* Before the submit nobody has taken the text. *)
LEMMA SubmittedOnce ==
  ASSUME TypeOK, TextInv, TakenInv, NEW d \in delivers, d.pc = "submit", d.text.id # 0,
         NEW r \in delivered
  PROVE  r.text.id # d.text.id
<1>1. d.text.id \in At["delivers"] /\ "delivers" \in Place /\ "rest" \in Place
  BY AtIs DEF Ids, Place
<1>2. d.text.id \notin Resting
  BY <1>1, AtIs DEF TextInv, Apart
<1>3. \A e \in delivers : e.text.id = d.text.id => e = d
  BY DEF TextInv, EachOnce, Once
<1>4. QED
  BY <1>2, <1>3 DEF TakenInv

LEMMA TakenAfterSubmit ==
  ASSUME TypeOK, TextInv, TakenInv, NEW d \in delivers, DeliverSubmits(d)
  PROVE  TakenInv'
<1> DEFINE record == [text |-> d.text, home |-> d.home, view |-> d.view, session |-> d.target]
           back == [d EXCEPT !.pc = "back"]
<1>1. /\ d.pc = "submit" /\ record.text = d.text /\ back.text = d.text /\ back.pc = "back"
  BY DEF DeliverSubmits, TypeOK, TasksTypeOK, DeliverTask
<1>2. delivered' \in {delivered, delivered \cup {record}}
  BY DEF DeliverSubmits
<1>3. \/ delivers' = delivers \ {d} /\ Settle({d.text.id}, "sent")
      \/ delivers' = (delivers \ {d}) \cup {back} /\ UNCHANGED settled
  BY DEF DeliverSubmits, DeliverIs
<1> HIDE DEF record, back
<1>4. Resting \subseteq Resting' /\ \A e \in delivers : e.pc = "back" => e \in delivers'
  BY <1>1, <1>3 DEF Settle, Resting
<1>5. d.text.id \in Resting' \/ \E e \in delivers' : e.pc = "back" /\ e.text.id = d.text.id
  <2>1. CASE Settle({d.text.id}, "sent")
    <3>1. <<d.text.id, "sent">> \in settled' /\ <<d.text.id, "sent">>[1] = d.text.id
      BY <2>1 DEF Settle
    <3>2. QED
      BY <3>1 DEF Resting
  <2>2. CASE delivers' = (delivers \ {d}) \cup {back}
    BY <1>1, <2>2
  <2>3. QED
    BY <1>3, <2>1, <2>2
<1>6. ASSUME NEW r \in delivered'
      PROVE  \/ r.text.id = 0 \/ r.text.id \in Resting'
             \/ \E e \in delivers' : e.pc = "back" /\ e.text.id = r.text.id
  <2>1. CASE r \in delivered
    BY <1>4, <2>1 DEF TakenInv
  <2>2. CASE r = record
    BY <1>1, <1>5, <2>2
  <2>3. QED
    BY <1>2, <2>1, <2>2
<1>7. ASSUME NEW q \in delivered', NEW r \in delivered', q.text.id = r.text.id, q.text.id # 0
      PROVE  q = r
  BY <1>1, <1>2, <1>7, SubmittedOnce DEF TakenInv
<1>8. QED
  BY <1>6, <1>7 DEF TakenInv

LEMMA TakenAfterTakeBack ==
  ASSUME TakenInv, NEW d \in delivers, DeliverTakesBack(d)
  PROVE  TakenInv'
<1>1. /\ UNCHANGED delivered /\ delivers' = delivers \ {d}
      /\ settled' = settled \cup {<<d.text.id, "composer">>}
  BY DEF DeliverTakesBack, Restore, Settle
<1>2. <<d.text.id, "composer">>[1] = d.text.id
  OBVIOUS
<1>3. Resting \subseteq Resting' /\ d.text.id \in Resting'
  BY <1>1, <1>2 DEF Resting
<1>4. QED
  BY <1>1, <1>3 DEF TakenInv

LEMMA StepTakesOnce ==
  ASSUME TypeOK, TextInv, TakenInv, [Next]_vars
  PROVE  TakenInv'
<1>1. CASE DeliverNext
  <2>1. PICK d \in delivers :
        \/ DeliverChecks(d) \/ DeliverConnects(d) \/ DeliverWaits(d) \/ DeliverReadsBackend(d)
        \/ DeliverLocks(d) \/ DeliverAims(d) \/ DeliverResumes(d) \/ DeliverCreates(d)
        \/ DeliverAttaches(d) \/ DeliverSubmits(d) \/ DeliverTakesBack(d)
    BY <1>1 DEF DeliverNext
  <2>2. CASE DeliverSubmits(d) \/ DeliverTakesBack(d)
    BY <2>2, TakenAfterSubmit, TakenAfterTakeBack
  <2>3. CASE ~(DeliverSubmits(d) \/ DeliverTakesBack(d))
    <3>1. TakenStay
      BY <2>1, <2>3 DEF DeliverChecks, DeliverConnects, DeliverWaits, DeliverReadsBackend,
         DeliverLocks, DeliverAims, DeliverResumes, DeliverCreates, DeliverAttaches, DeliverIs,
         TakenStay
    <3>2. QED
      BY <3>1, TakenAfterStay
  <2>4. QED
    BY <2>2, <2>3
<1>2. CASE ~DeliverNext
  BY <1>2, OthersTakeNothing, TakenAfterStay
<1>3. QED
  BY <1>1, <1>2

LEMMA PromptsTakenOnce == Spec => []TakenInv
<1>1. Init => TakenInv
  BY DEF Init, TakenInv
<1>2. TypeOK /\ TextInv /\ TakenInv /\ [Next]_vars => TakenInv'
  BY StepTakesOnce
<1>3. QED
  BY <1>1, <1>2, TypeCorrect, TextsInOnePlace, PTL DEF Spec

-----------------------------------------------------------------------------
(* What follows. *)

(* Of two alike there is one. *)
LEMMA AtMostOne ==
  ASSUME NEW S, \A x, y \in S : x = y
  PROVE  Cardinality(S) = IF S = {} THEN 0 ELSE 1
<1>1. CASE S = {}
  BY <1>1, FS_EmptySet
<1>2. CASE S # {}
  <2>1. PICK x : x \in S
    BY <1>2
  <2>2. S = {x}
    BY <2>1
  <2>3. QED
    BY <1>2, <2>2, FS_Singleton
<1>3. QED
  BY <1>1, <1>2

(* What a backend took is nobody's to send. *)
LEMMA NotSentAgain ==
  ASSUME TypeOK, TextInv, TakenInv, NEW r \in delivered, r.text.id # 0
  PROVE  r.text.id \notin StillToSend
<1> DEFINE t == r.text.id
<1>1. /\ t \in QueuedIds => t \in At["queue"]
      /\ t \in Handed => t \in At["window"] \/ t \in At["pumps"] \/ t \in At["stops"]
      /\ \A a \in answers : t = a.text.id => t \in At["answers"]
      /\ \A d \in delivers : t = d.text.id => t \in At["delivers"]
      /\ t \in Resting => t \in At["rest"]
  BY AtIs DEF Handed, Ids
<1>2. \A a, b \in Place : t \in At[a] /\ t \in At[b] => a = b
  BY DEF TextInv, Apart
<1>3. \A d, e \in delivers : t = d.text.id /\ t = e.text.id => d = e
  BY DEF TextInv, EachOnce, Once
<1>4. \/ t \in Resting
      \/ \E d \in delivers : d.pc = "back" /\ t = d.text.id
  BY DEF TakenInv
<1> HIDE DEF t
<1>5. t \notin StillToSend
  <2>1. CASE t \in Resting
    <3>1. \A a \in Place \ {"rest"} : t \notin At[a]
      BY <1>1, <1>2, <2>1 DEF Place
    <3>2. QED
      BY <1>1, <3>1 DEF StillToSend, Place
  <2>2. CASE \E d \in delivers : d.pc = "back" /\ t = d.text.id
    <3>1. \A a \in Place \ {"delivers"} : t \notin At[a]
      BY <1>1, <1>2, <2>2 DEF Place
    <3>2. \A e \in delivers : t = e.text.id => e.pc = "back"
      BY <1>3, <2>2
    <3>3. QED
      BY <1>1, <3>1, <3>2 DEF StillToSend, Place
  <2>3. QED
    BY <1>4, <2>1, <2>2
<1>6. QED
  BY <1>5 DEF t

LEMMA InOnePlace ==
  ASSUME TypeOK, TextInv, TakenInv
  PROVE  NoTextTwice
<1> SUFFICES ASSUME NEW t \in 1 .. typed
             PROVE  /\ \A r \in delivered : r.text.id = t =>
                         /\ t \notin StillToSend
                         /\ \A q \in delivered : q.text.id = t => q = r
                    /\ Cardinality({where \in {"composer", "cancelled", "sent", "answered"} :
                                     <<t, where>> \in settled})
                         + Cardinality({n \in DOMAIN queue : queue[n].id = t})
                         + Cardinality({d \in delivers : d.text.id = t})
                         + Cardinality({x \in answers : x.text.id = t})
                         + Cardinality({p \in pumps : p.text.id = t})
                         + Cardinality({x \in stops : x.text.id = t})
                         + (IF window.text.id = t THEN 1 ELSE 0) <= 1
  BY DEF NoTextTwice
<1>1. t # 0
  BY DEF TypeOK, HistoryTypeOK
<1> DEFINE R == {where \in {"composer", "cancelled", "sent", "answered"} : <<t, where>> \in settled}
           Q == {n \in DOMAIN queue : queue[n].id = t}
           D == {d \in delivers : d.text.id = t}
           A == {x \in answers : x.text.id = t}
           P == {p \in pumps : p.text.id = t}
           S == {x \in stops : x.text.id = t}
<1>2. /\ Cardinality(R) = IF R = {} THEN 0 ELSE 1
      /\ Cardinality(Q) = IF Q = {} THEN 0 ELSE 1
  <2>1. \A x, y \in R : x = y
    BY <1>1 DEF TextInv, EachOnce, SettledOnce
  <2>2. \A x, y \in Q : x = y
    BY DEF TextInv, EachOnce, QueueOnce
  <2> HIDE DEF R, Q
  <2>3. QED
    BY <2>1, <2>2, AtMostOne
<1>3. /\ Cardinality(D) = IF D = {} THEN 0 ELSE 1
      /\ Cardinality(A) = IF A = {} THEN 0 ELSE 1
      /\ Cardinality(P) = IF P = {} THEN 0 ELSE 1
      /\ Cardinality(S) = IF S = {} THEN 0 ELSE 1
  <2>1. /\ \A x, y \in D : x = y
        /\ \A x, y \in A : x = y
        /\ \A x, y \in P : x = y
        /\ \A x, y \in S : x = y
    BY <1>1 DEF TextInv, EachOnce, Once
  <2> HIDE DEF D, A, P, S
  <2>2. QED
    BY <2>1, AtMostOne
<1>4. /\ R # {} => t \in At["rest"]
      /\ Q # {} => t \in At["queue"]
      /\ D # {} => t \in At["delivers"]
      /\ A # {} => t \in At["answers"]
      /\ P # {} => t \in At["pumps"]
      /\ S # {} => t \in At["stops"]
      /\ window.text.id = t => t \in At["window"]
  <2>1. R # {} => t \in Resting
    <3>1. \A where \in R : <<t, where>>[1] = t /\ <<t, where>> \in settled
      OBVIOUS
    <3>2. QED
      BY <3>1 DEF Resting
  <2>2. Q # {} => t \in QueuedIds
    BY DEF QueuedIds
  <2>3. /\ D # {} => t \in Ids(delivers)
        /\ A # {} => t \in Ids(answers)
        /\ P # {} => t \in Ids(pumps)
        /\ S # {} => t \in Ids(stops)
        /\ window.text.id = t => t \in Ids({window})
    BY <1>1 DEF Ids
  <2>4. QED
    BY <1>1, <2>1, <2>2, <2>3, AtIs
<1>5. \A a, b \in Place : t \in At[a] /\ t \in At[b] => a = b
  BY DEF TextInv, Apart
<1> HIDE DEF R, Q, D, A, P, S
<1>6. PICK place : \A a \in Place : t \in At[a] => a = place
  BY <1>5
<1>7. /\ R # {} => place = "rest"
      /\ Q # {} => place = "queue"
      /\ D # {} => place = "delivers"
      /\ A # {} => place = "answers"
      /\ P # {} => place = "pumps"
      /\ S # {} => place = "stops"
      /\ window.text.id = t => place = "window"
  BY <1>4, <1>6 DEF Place
<1>8. Cardinality(R) + Cardinality(Q) + Cardinality(D) + Cardinality(A) + Cardinality(P)
        + Cardinality(S) + (IF window.text.id = t THEN 1 ELSE 0) <= 1
  BY <1>2, <1>3, <1>7
<1>9. \A r \in delivered : r.text.id = t =>
        t \notin StillToSend /\ \A q \in delivered : q.text.id = t => q = r
  BY <1>1, NotSentAgain DEF TakenInv
<1>10. QED
  BY <1>8, <1>9 DEF R, Q, D, A, P, S

(* Whoever takes it on, a text is never in two places: neither the queue     *)
(* and the hand-over from after_turn() to send(), nor a delivery and the     *)
(* composer, nor two deliveries hold it at once (send.rs:35-120, 225-300).   *)
(* A prompt is taken once, and once it is, nobody has it to send: with its   *)
(* acknowledgement lost it is the user's again, in the composer.             *)
THEOREM TextsAreNotDoubled == Spec => []NoTextTwice
<1>1. TypeOK /\ TextInv /\ TakenInv => NoTextTwice
  BY InOnePlace
<1>2. QED
  BY <1>1, TypeCorrect, TextsInOnePlace, PromptsTakenOnce, PTL

-----------------------------------------------------------------------------
(* Lost texts. *)

Everywhere == QueuedIds \cup Flying \cup Handed \cup Resting

(* What was typed now, or was somewhere before, is somewhere. *)
TextsKept == \A n \in 1 .. typed' : n > typed \/ n \in Everywhere => n \in Everywhere'

LEMMA EverywhereIs ==
  ASSUME NEW n, n # 0
  PROVE  /\ n \in Everywhere <=> \E p \in Place : n \in At[p]
         /\ n \in Everywhere' <=> \E p \in Place : n \in At'[p]
<1>1. n \in Everywhere <=> \E p \in Place : n \in At[p]
  <2>1. /\ n \in Flying <=> n \in Ids(delivers) \cup Ids(answers)
        /\ n \in Handed <=> n \in Ids({window}) \cup Ids(pumps) \cup Ids(stops)
    BY DEF Flying, Handed, Ids
  <2>2. n \in Everywhere <=>
          \/ n \in At["queue"] \/ n \in At["window"] \/ n \in At["pumps"] \/ n \in At["stops"]
          \/ n \in At["delivers"] \/ n \in At["answers"] \/ n \in At["rest"]
    BY <2>1, AtIs DEF Everywhere
  <2>3. QED
    BY <2>2 DEF Place
<1>2. n \in Everywhere' <=> \E p \in Place : n \in At'[p]
  <2>1. /\ n \in Flying' <=> n \in Ids(delivers') \cup Ids(answers')
        /\ n \in Handed' <=> n \in Ids({window'}) \cup Ids(pumps') \cup Ids(stops')
    BY DEF Flying, Handed, Ids
  <2>2. n \in Everywhere' <=>
          \/ n \in At'["queue"] \/ n \in At'["window"] \/ n \in At'["pumps"] \/ n \in At'["stops"]
          \/ n \in At'["delivers"] \/ n \in At'["answers"] \/ n \in At'["rest"]
    BY <2>1, AtIs DEF Everywhere
  <2>3. QED
    BY <2>2 DEF Place
<1>3. QED
  BY <1>1, <1>2

LEMMA StepKeepsNumbers ==
  ASSUME TypeOK, TextStep, ~AnswerIsLate, ~AnswerFails
  PROVE  TextsKept
<1> SUFFICES ASSUME NEW n \in 1 .. typed', n > typed \/ n \in Everywhere
             PROVE  n \in Everywhere'
  BY DEF TextsKept
<1>0. typed \in Nat
  BY DEF TypeOK, HistoryTypeOK
<1>1. CASE NumbersStay
  <2>1. n # 0 /\ n \in Everywhere
    BY <1>0, <1>1 DEF NumbersStay
  <2>2. QED
    BY <1>1, <2>1, EverywhereIs DEF NumbersStay
<1>2. ASSUME NEW X, NEW from \in Place, NEW to \in Place, NumbersMove(X, from, to)
      PROVE  n \in Everywhere'
  <2>1. n # 0 /\ n \in Everywhere
    BY <1>0, <1>2 DEF NumbersMove
  <2>2. PICK p \in Place : n \in At[p]
    BY <2>1, EverywhereIs
  <2>3. n \in At'[p] \/ n \in At'[to]
    BY <1>2, <2>2 DEF NumbersMove
  <2>4. QED
    BY <2>1, <2>3, EverywhereIs
<1>3. ASSUME NEW to \in Place, NumberIsNew(to)
      PROVE  n \in Everywhere'
  <2>1. n # 0 /\ (n = typed + 1 \/ n \in Everywhere)
    BY <1>0, <1>3 DEF NumberIsNew
  <2>2. CASE n = typed + 1
    <3>1. n \in At'[to]
      BY <1>3, <2>2 DEF NumberIsNew
    <3>2. QED
      BY <2>1, <3>1, EverywhereIs
  <2>3. CASE n \in Everywhere
    <3>1. PICK p \in Place : n \in At[p]
      BY <2>1, <2>3, EverywhereIs
    <3>2. n \in At'[p]
      BY <1>3, <3>1 DEF NumberIsNew
    <3>3. QED
      BY <2>1, <3>2, EverywhereIs
  <2>4. QED
    BY <2>1, <2>2, <2>3
<1>4. QED
  BY <1>1, <1>2, <1>3 DEF TextStep

(* send.rs:10-12, for every backend and every use of it: whatever is typed   *)
(* stays somewhere, through stops, drops, refusals, retries and changes of   *)
(* conversation, with two exceptions, both of them answers to a question:    *)
(* the question is gone by the time answer() takes the lock (send.rs:46-55,  *)
(* 356), or the request that carries the answer fails (send.rs:377-382).     *)
THEOREM OnlyAnswersAreLost == Spec => [][AnswerIsLate \/ AnswerFails \/ TextsKept]_vars
<1>1. TypeOK /\ TextInv /\ [Next]_vars => [AnswerIsLate \/ AnswerFails \/ TextsKept]_vars
  BY StepKeepsTexts, StepKeepsNumbers
<1>2. QED
  BY <1>1, TypeCorrect, TextsInOnePlace, PTL DEF Spec

-----------------------------------------------------------------------------
(* A backend that asks nothing. *)

(* No outside event is a question. *)
NobodyAsks == \A start \in Scenarios : start.budget["question"] = 0

NoQuestionComes ==
  \A p \in pumps : \A n \in DOMAIN p.events : p.events[n].kind # "Clarify"

NoQuestion ==
  /\ budget["question"] = 0 /\ clarify = None /\ window.pc # "answer" /\ answers = {}
  /\ NoQuestionComes

(* The bound on questions is used up. *)
LEMMA NoneToSpend ==
  ASSUME TypeOK, budget["question"] = 0, UNCHANGED budget \/ \E c \in Class : Spend(c)
  PROVE  budget'["question"] = 0
BY DEF TypeOK, HistoryTypeOK, Spend, Class

LEMMA EmittedPlain ==
  ASSUME TypeOK, NoQuestionComes, NEW e, NEW event \in Event, event.kind # "Clarify",
         pumps' = Emit(pumps, e, event)
  PROVE  NoQuestionComes'
<1> SUFFICES ASSUME NEW q \in pumps', NEW n \in DOMAIN q.events
             PROVE  q.events[n].kind # "Clarify"
  BY DEF NoQuestionComes
<1>1. PICK p \in pumps : q = IF p.epoch = e THEN [p EXCEPT !.events = Append(@, event)] ELSE p
  BY DEF Emit
<1>2. p \in Pump /\ p.events \in Seq(Event)
  BY DEF TypeOK, TasksTypeOK, Pump
<1>3. q.events[n] = event \/ \E m \in DOMAIN p.events : q.events[n] = p.events[m]
  <2>1. CASE p.epoch = e
    <3>1. q.events = Append(p.events, event)
      BY <1>1, <1>2, <2>1 DEF Pump
    <3>2. CASE n = Len(p.events) + 1
      BY <1>2, <3>1, <3>2, AppendProperties
    <3>3. CASE n # Len(p.events) + 1
      <4>1. n \in DOMAIN p.events /\ q.events[n] = p.events[n]
        BY <1>2, <3>1, <3>3, AppendProperties
      <4>2. QED
        BY <4>1
    <3>4. QED
      BY <3>2, <3>3
  <2>2. CASE p.epoch # e
    BY <1>1, <2>2
  <2>3. QED
    BY <2>1, <2>2
<1>4. QED
  BY <1>3 DEF NoQuestionComes

LEMMA ChannelsOnlyLose ==
  ASSUME TypeOK, NoQuestionComes,
         \A q \in pumps' : \E p \in pumps :
           q.events = p.events \/ (p.events # <<>> /\ q.events = Tail(p.events))
  PROVE  NoQuestionComes'
<1> SUFFICES ASSUME NEW q \in pumps', NEW n \in DOMAIN q.events
             PROVE  q.events[n].kind # "Clarify"
  BY DEF NoQuestionComes
<1>1. PICK p \in pumps :
        q.events = p.events \/ (p.events # <<>> /\ q.events = Tail(p.events))
  OBVIOUS
<1>2. p.events \in Seq(Event)
  BY DEF TypeOK, TasksTypeOK, Pump
<1>3. \E m \in DOMAIN p.events : q.events[n] = p.events[m]
  <2>1. CASE q.events = p.events
    BY <2>1
  <2>2. CASE p.events # <<>> /\ q.events = Tail(p.events)
    <3>1. n + 1 \in DOMAIN p.events /\ q.events[n] = p.events[n + 1]
      BY <1>2, <2>2
    <3>2. QED
      BY <3>1
  <2>3. QED
    BY <1>1, <2>1, <2>2
<1>4. QED
  BY <1>3 DEF NoQuestionComes

LEMMA PumpsAskNothing ==
  ASSUME TypeOK, NoQuestion, PumpNext
  PROVE  NoQuestionComes'
<1>1. PICK p \in pumps :
      \/ DropsEvent(p) \/ HandleConnected(p) \/ HandleSessionInfo(p) \/ HandleClarify(p)
      \/ HandleLost(p) \/ HandleTurn(p)
      \/ PumpStreamLost(p) \/ PumpRetry(p) \/ PumpAfterTurn(p) \/ PumpSends(p)
  BY DEF PumpNext
<1>2. p \in Pump
  BY DEF TypeOK, TasksTypeOK
<1>3. \E q : /\ pumps' = (pumps \ {p}) \cup {q}
             /\ q.events = p.events \/ (p.events # <<>> /\ q.events = Tail(p.events))
  <2>1. CASE p.events # <<>> /\ \E pc : Handled(p, pc)
    <3>1. PICK pc : Handled(p, pc)
      BY <2>1
    <3>2. [p EXCEPT !.events = Tail(@), !.pc = pc].events = Tail(p.events)
      BY <1>2 DEF Pump
    <3>3. QED
      BY <2>1, <3>1, <3>2 DEF Handled
  <2>2. CASE PumpStreamLost(p)
    <3>1. [p EXCEPT !.pc = "retry", !.gen = connect_generation].events = p.events
      BY <1>2 DEF Pump
    <3>2. QED
      BY <2>2, <3>1 DEF PumpStreamLost
  <2>3. CASE PumpRetry(p)
    <3>1. [p EXCEPT !.pc = "idle", !.gen = 0].events = p.events
      BY <1>2 DEF Pump
    <3>2. QED
      BY <2>3, <3>1 DEF PumpRetry
  <2>4. CASE PumpAfterTurn(p)
    <3> DEFINE q == [p EXCEPT !.pc = IF NextQueued = NoText THEN "idle" ELSE "send",
                              !.text = NextQueued]
    <3>1. q.events = p.events
      BY <1>2 DEF Pump
    <3>2. pumps' = (pumps \ {p}) \cup {q}
      BY <2>4 DEF PumpAfterTurn
    <3> HIDE DEF q
    <3>3. QED
      BY <3>1, <3>2
  <2>5. CASE PumpSends(p)
    <3>1. [p EXCEPT !.pc = "idle", !.text = NoText].events = p.events
      BY <1>2 DEF Pump
    <3>2. QED
      BY <2>5, <3>1 DEF PumpSends
  <2>6. QED
    BY <1>1, <2>1, <2>2, <2>3, <2>4, <2>5 DEF DropsEvent, HandleConnected, HandleSessionInfo,
       HandleClarify, HandleLost, HandleTurn, Ready
<1>4. \A r \in pumps' : \E o \in pumps :
        r.events = o.events \/ (o.events # <<>> /\ r.events = Tail(o.events))
  BY <1>3
<1>5. QED
  BY <1>4, ChannelsOnlyLose DEF NoQuestion

LEMMA StreamsAskNothing ==
  ASSUME TypeOK, NoQuestion, StreamNext
  PROVE  NoQuestionComes'
<1>1. \E i, event, b : event \in Event /\ event.kind # "Clarify" /\ Reports(i, event, b)
  <2>1. PICK i \in Adapters :
        \/ StreamConnects(i) \/ StreamFails(i) \/ StreamDrops(i)
        \/ \E s \in Session :
             \/ \E k \in {"Delta", "Complete", "TurnFailed"} : StreamFrame(i, s, k)
             \/ StreamQuestion(i, s)
             \/ StreamSessionInfo(i, s)
    BY DEF StreamNext
  <2>2. \A k \in {"Connected", "Disconnected", "Failed"} :
          Plain(k) \in Event /\ Plain(k).kind # "Clarify"
    BY PlainTyped DEF Plain
  <2>3. \A s \in Session : \A k \in {"Delta", "Complete", "TurnFailed", "SessionInfo"} :
          [kind |-> k, session |-> s] \in Event /\ [kind |-> k, session |-> s].kind # "Clarify"
    BY DEF Event
  <2>4. CASE StreamConnects(i) \/ StreamFails(i)
    <3>1. \E k \in {"Connected", "Failed"} : \E b : Reports(i, Plain(k), b)
      BY <2>4 DEF StreamConnects, StreamFails
    <3>2. QED
      BY <2>2, <3>1
  <2>5. CASE StreamDrops(i)
    <3>1. \E k \in {"Disconnected", "Failed"} : \E b : Reports(i, Plain(k), b)
      BY <2>5 DEF StreamDrops
    <3>2. QED
      BY <2>2, <3>1
  <2>6. ASSUME NEW s \in Session, NEW k \in {"Delta", "Complete", "TurnFailed"},
               StreamFrame(i, s, k)
        PROVE  \E event, b : event \in Event /\ event.kind # "Clarify" /\ Reports(i, event, b)
    <3>1. Reports(i, [kind |-> k, session |-> s], backends[i])
      BY <2>6 DEF StreamFrame
    <3>2. QED
      BY <2>3, <3>1
  <2>7. ASSUME NEW s \in Session, StreamSessionInfo(i, s)
        PROVE  \E event, b : event \in Event /\ event.kind # "Clarify" /\ Reports(i, event, b)
    <3>1. \E b : Reports(i, [kind |-> "SessionInfo", session |-> s], b)
      BY <2>7 DEF StreamSessionInfo
    <3>2. QED
      BY <2>3, <3>1
  <2>8. \A s \in Session : ~StreamQuestion(i, s)
    BY DEF StreamQuestion, Spend, NoQuestion
  <2>9. QED
    BY <2>1, <2>4, <2>5, <2>6, <2>7, <2>8
<1>2. \E e, event : event \in Event /\ event.kind # "Clarify" /\ pumps' = Emit(pumps, e, event)
  BY <1>1 DEF Reports
<1>3. QED
  BY <1>2, EmittedPlain DEF NoQuestion

LEMMA ChannelsAskNothing ==
  ASSUME TypeOK, NoQuestion,
         \/ UNCHANGED pumps
         \/ \E i : LastWord(i)
         \/ \E i \in Adapters : EnsureBegin(i)
  PROVE  NoQuestionComes'
<1>1. CASE UNCHANGED pumps
  BY <1>1 DEF NoQuestion, NoQuestionComes
<1>2. CASE \E i : LastWord(i)
  <2>1. Plain("Disconnected") \in Event /\ Plain("Disconnected").kind # "Clarify"
    BY PlainTyped DEF Plain
  <2>2. QED
    BY <1>1, <1>2, <2>1, EmittedPlain DEF LastWord, NoQuestion
<1>3. CASE \E i \in Adapters : EnsureBegin(i)
  <2>1. UNCHANGED pumps \/ \E q : q.events = <<>> /\ pumps' = pumps \cup {q}
    BY <1>3 DEF EnsureBegin
  <2>2. QED
    BY <1>1, <2>1 DEF NoQuestion, NoQuestionComes
<1>4. QED
  BY <1>1, <1>2, <1>3

(* No step brings a question, nor the means to answer one. *)
Unasked ==
  /\ UNCHANGED budget \/ \E c \in Class : Spend(c)
  /\ clarify' \in {clarify, None}
  /\ answers' \subseteq answers
  /\ window'.pc \in {window.pc, "idle", "connect", "scope", "send", "stop", "after"}

LEMMA NobodyIsAsked ==
  ASSUME TypeOK, NoQuestion, Unasked, NoQuestionComes'
  PROVE  NoQuestion'
BY NoneToSpend DEF NoQuestion, Unasked

LEMMA StepAsksNothing ==
  ASSUME TypeOK, NoQuestion, [Next]_vars
  PROVE  NoQuestion'
<1>1. CASE ConnectTaskNext \/ RetryNext \/ RestartNext \/ OpenTaskNext
  <2>1. UNCHANGED pumps
    BY <1>1 DEF ConnectTaskNext, ConnectProbed, ConnectAttach, ConnectEnsured, ConnectRetry,
       ConnectReopen, ConnectOpen, RetryNext, RetryFires, RetryConnects, RestartNext,
       ServerRestarted, RestartConnects, OpenTaskNext, OpenAttach, OpenEnsured, OpenHistory,
       OpenResume, OpenResumed, OpenStreamLost, OpenRetry
  <2>2. Unasked
    BY <1>1 DEF ConnectTaskNext, ConnectProbed, ConnectAttach, ConnectEnsured, ConnectRetry,
       ConnectReopen, ConnectOpen, RetryNext, RetryFires, RetryConnects, RestartNext,
       ServerRestarted, RestartConnects, OpenTaskNext, OpenAttach, OpenEnsured, OpenHistory,
       OpenResume, OpenResumed, OpenStreamLost, OpenRetry, Open, RequestFails, Class, Unasked
  <2>3. QED
    BY <2>1, <2>2, ChannelsAskNothing, NobodyIsAsked
<1>2. CASE EnsureStreamNext \/ AdapterTaskNext
  <2>1. NoQuestionComes'
    BY <1>2, ChannelsAskNothing DEF EnsureStreamNext, EnsureDial, EnsureSettle, AdapterTaskNext,
       AdapterDisconnects, ClearScope, AnswerEnds
  <2>2. Unasked
    BY <1>2 DEF EnsureStreamNext, EnsureBegin, EnsureDial, EnsureSettle, AdapterTaskNext,
       AdapterDisconnects, ClearScope, AnswerEnds, RequestFails, Class, Unasked
  <2>3. QED
    BY <2>1, <2>2, NobodyIsAsked
<1>3. CASE DeliverNext \/ StopTaskNext \/ ListFails
  <2>1. UNCHANGED pumps
    BY <1>3 DEF DeliverNext, DeliverChecks, DeliverConnects, DeliverWaits, DeliverReadsBackend,
       DeliverLocks, DeliverAims, DeliverResumes, DeliverCreates, DeliverAttaches,
       DeliverSubmits, DeliverTakesBack, StopTaskNext, StopInterrupts, StopGraceEnds,
       StopAfterTurn, StopSends, ListFails
  <2>2. Unasked
    BY <1>3 DEF DeliverNext, DeliverChecks, DeliverConnects, DeliverWaits, DeliverReadsBackend,
       DeliverLocks, DeliverAims, DeliverResumes, DeliverCreates, DeliverAttaches,
       DeliverSubmits, DeliverTakesBack, StopTaskNext, StopInterrupts, StopGraceEnds,
       StopAfterTurn, StopSends, ListFails, AfterTurn, RequestFails, Class, Unasked
  <2>3. QED
    BY <2>1, <2>2, ChannelsAskNothing, NobodyIsAsked
<1>4. CASE PumpNext
  <2>1. NoQuestionComes'
    BY <1>4, PumpsAskNothing
  <2>2. UNCHANGED <<budget, window, answers>>
    BY <1>4 DEF PumpNext, DropsEvent, HandleConnected, HandleSessionInfo, HandleClarify,
       HandleLost, HandleTurn, PumpStreamLost, PumpRetry, PumpAfterTurn, PumpSends
  <2>3. \A p \in pumps : ~HandleClarify(p)
    <3>1. ASSUME NEW p \in pumps, p.events # <<>>
          PROVE  Head(p.events).kind # "Clarify"
      <4>1. p.events \in Seq(Event)
        BY DEF TypeOK, TasksTypeOK, Pump
      <4>2. 1 \in DOMAIN p.events /\ Head(p.events) = p.events[1]
        BY <3>1, <4>1
      <4>3. QED
        BY <4>2 DEF NoQuestion, NoQuestionComes
    <3>2. QED
      BY <3>1 DEF HandleClarify, Ready
  <2>4. clarify' \in {clarify, None}
    BY <1>4, <2>3 DEF PumpNext, DropsEvent, HandleConnected, HandleSessionInfo, HandleLost,
       DropQuestion, HandleTurn, PumpStreamLost, PumpRetry, PumpAfterTurn, AfterTurn, PumpSends
  <2>5. QED
    BY <2>1, <2>2, <2>4, NobodyIsAsked DEF Unasked
<1>5. CASE WindowContinues
  <2>1. UNCHANGED pumps
    BY <1>5 DEF WindowContinues, WindowConnects, WindowClearsScope, WindowSends, WindowAnswers,
       WindowStops, WindowAfterTurn
  <2>2. Unasked
    BY <1>5 DEF WindowContinues, WindowConnects, WindowClearsScope, WindowSends, WindowAnswers,
       WindowStops, WindowAfterTurn, WindowIs, AfterTurn, Unasked, NoQuestion
  <2>3. QED
    BY <2>1, <2>2, ChannelsAskNothing, NobodyIsAsked
<1>6. CASE CommandNext
  <2>1. UNCHANGED pumps
    BY <1>6 DEF CommandNext, CommandConnect, DisableBackend, ApplyWorkspace, SwitchBackend,
       OpenSession, NewChat, Submit, CommandStop, DismissClarify, SendQueuedNow, Unqueue
  <2>2. CASE Submit
    <3>1. WindowIdle /\ Spend("text") /\ UNCHANGED clarify /\ clarify = None
      BY <2>2 DEF Submit, NoQuestion
    <3>2. UNCHANGED window \/ \E text : WindowIs("send", text)
      BY <2>2, <3>1 DEF Submit
    <3>3. UNCHANGED answers
      BY <2>2 DEF Submit
    <3>4. Unasked
      BY <3>1, <3>2, <3>3 DEF WindowIs, Class, Unasked
    <3>5. QED
      BY <2>1, <3>4, ChannelsAskNothing, NobodyIsAsked
  <2>3. CASE ~Submit
    <3>1. \E c \in Class : Spend(c)
      BY <1>6, <2>3 DEF CommandNext, CommandConnect, DisableBackend, ApplyWorkspace,
         SwitchBackend, OpenSession, NewChat, CommandStop, DismissClarify, SendQueuedNow,
         Unqueue, Class
    <3>2. clarify' \in {clarify, None}
      BY <1>6, <2>3 DEF CommandNext, CommandConnect, DisableBackend, ApplyWorkspace,
         SwitchBackend, OpenSession, Open, NewChat, CommandStop, DismissClarify, SendQueuedNow,
         Unqueue
    <3>3. UNCHANGED window \/ \E pc \in {"connect", "scope", "stop", "after"} : WindowIs(pc, NoText)
      BY <1>6, <2>3 DEF CommandNext, CommandConnect, DisableBackend, ApplyWorkspace,
         SwitchBackend, OpenSession, NewChat, CommandStop, DismissClarify, SendQueuedNow, Unqueue
    <3>4. UNCHANGED answers
      BY <1>6, <2>3 DEF CommandNext, CommandConnect, DisableBackend, ApplyWorkspace,
         SwitchBackend, OpenSession, NewChat, CommandStop, DismissClarify, SendQueuedNow, Unqueue
    <3>5. Unasked
      BY <3>1, <3>2, <3>3, <3>4 DEF WindowIs, Unasked
    <3>6. QED
      BY <2>1, <3>5, ChannelsAskNothing, NobodyIsAsked
  <2>4. QED
    BY <2>2, <2>3
<1>7. CASE StreamNext
  <2>1. Unasked
    BY <1>7 DEF StreamNext, StreamConnects, StreamFails, StreamDrops, StreamFrame,
       StreamQuestion, StreamSessionInfo, Reports, Class, Unasked
  <2>2. QED
    BY <1>7, <2>1, StreamsAskNothing, NobodyIsAsked
<1>8. CASE UNCHANGED vars
  BY <1>8 DEF vars, NoQuestion, NoQuestionComes
<1>9. QED
  BY <1>1, <1>2, <1>3, <1>4, <1>5, <1>6, <1>7, <1>8 DEF Next, TaskNext, Idle

LEMMA NothingYetLost ==
  ASSUME Init
  PROVE  NothingTypedIsLost
BY DEF Init, NothingTypedIsLost

LEMMA NothingMoreLost ==
  ASSUME TypeOK, NoQuestion, NothingTypedIsLost,
         [AnswerIsLate \/ AnswerFails \/ TextsKept]_vars
  PROVE  NothingTypedIsLost'
<1>1. ~AnswerIsLate /\ ~AnswerFails
  BY DEF NoQuestion, AnswerIsLate, WindowAnswers, AnswerFails
<1>2. CASE TextsKept
  <2> SUFFICES ASSUME NEW n \in 1 .. typed'
               PROVE  n \in Everywhere'
    BY DEF NothingTypedIsLost, Everywhere
  <2>1. typed \in Nat
    BY DEF TypeOK, HistoryTypeOK
  <2>2. n > typed \/ n \in 1 .. typed
    BY <2>1
  <2>3. n > typed \/ n \in Everywhere
    BY <2>2 DEF NothingTypedIsLost, Everywhere
  <2>4. QED
    BY <1>2, <2>3 DEF TextsKept
<1>3. CASE UNCHANGED vars
  BY <1>3 DEF vars, NothingTypedIsLost, QueuedIds, Flying, Handed, Resting
<1>4. QED
  BY <1>1, <1>2, <1>3

(* With a backend that asks nothing, nothing typed is ever lost            *)
(* (send.rs:10-12): every text is queued, on its way, back in the composer *)
(* or with the backend, whichever failures, stops and switches overlap.    *)
THEOREM NothingIsLost ==
  ASSUME NobodyAsks
  PROVE  Spec => []NothingTypedIsLost
<1>1. Init => NoQuestion /\ NothingTypedIsLost
  <2>1. Init => budget["question"] = 0
    BY DEF Init, NobodyAsks
  <2>2. Init => NoQuestion
    BY <2>1 DEF Init, NoQuestion, NoQuestionComes
  <2>3. QED
    BY <2>2, NothingYetLost
<1>2. TypeOK /\ NoQuestion /\ [Next]_vars => NoQuestion'
  BY StepAsksNothing
<1>3. TypeOK /\ NoQuestion /\ NothingTypedIsLost /\ [AnswerIsLate \/ AnswerFails \/ TextsKept]_vars
        => NothingTypedIsLost'
  BY NothingMoreLost
<1>4. QED
  BY <1>1, <1>2, <1>3, TypeCorrect, OnlyAnswersAreLost, PTL DEF Spec
=============================================================================
