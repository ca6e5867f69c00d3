--------------------------- MODULE AdapterProofs ---------------------------
(***************************************************************************)
(* Proofs of what single adapters promise besides the contract of          *)
(* AgentStream, for any set of sessions and any bounds: that OpenCode      *)
(* sends an answer to the session that asked and shows a reply once, that  *)
(* a session of Xuexiaomi has one copy, which a stop reaches, and that a   *)
(* local agent is given the prompts of its session and is known to have    *)
(* died.  And the types of Backend, at the end, which rest on those and on *)
(* the contract.                                                           *)
(*                                                                         *)
(* The other adapters' variables stay as they began, so OwnInv has one     *)
(* invariant for each kind.                                                *)
(***************************************************************************)
EXTENDS BackendProofs, WellFoundedInduction

(* OpenCode.  A question on screen has its asker noted; and the text last   *)
(* seen of a reply, and what the agent told of it, are a beginning of the   *)
(* reply, as is what the chat has taken, unless it missed a piece.          *)
Anyone == Session \cup {None}

CodeTypes ==
  /\ call.session \in Anyone
  /\ shared \in [active : Anyone, permissions : [Code!Request -> Anyone],
                 known : BOOLEAN, text : 0 .. ReplyLength]
  /\ turn \in Code!Turn /\ questions \subseteq Code!Request
  /\ asked \in [Code!Request -> Anyone] /\ answers \in [Code!Request -> Anyone]

AskerInv ==
  /\ AnswerGoesToAsker
  /\ \A r \in Code!Request :
       /\ shared.permissions[r] # None => shared.permissions[r] = asked[r]
       /\ r \in questions => shared.permissions[r] # None

ToldInv ==
  /\ shared.text <= turn.said /\ turn.told <= turn.said
  /\ turn.session = None => turn.said = 0

ChatInv ==
  /\ bubble \in Seq(1 .. ReplyLength) /\ missed \in BOOLEAN
  /\ missed \/ (Len(bubble) <= turn.said /\ \A i \in 1 .. Len(bubble) : bubble[i] = i)

CodeOwnInv == CodeTypes /\ AskerInv /\ ToldInv /\ ChatInv

(* Xuexiaomi.  Every turn went to the copy its session has now, and none to *)
(* a snapshot.                                                              *)
XxmTypes ==
  /\ bound \in [{"call", "submit", "frame", "fault"} -> Nat]
  /\ channel \in Nat /\ events \in Nat
  /\ readOnly \subseteq Snapshot
  /\ continued \in [Session -> Nat] /\ copies \in [Session -> Nat]
  /\ turns \in Seq(Xxm!StreamedTurn)
  /\ call.step \in {"continuing", "posting", "taken"} => call.session \in Session

CopyInv ==
  /\ \A i \in DOMAIN turns :
       /\ turns[i].target = continued[turns[i].session]
       /\ turns[i].session \in Snapshot => turns[i].target # 0
  /\ call.step = "continuing" => call.session \in Snapshot /\ continued[call.session] = 0
  /\ call.step = "taken" => ~Xxm!Refuses

XxmOwnInv == XxmTypes /\ CopyInv

(* The command line agents.  The transport holds the newest process or      *)
(* none, that of the session opened last unless it was misnamed; and what   *)
(* was heard of a process is told to the connect that started it.           *)
Told == [from : Nat, what : {"line", "system", "question", "exit"}]

ProcessTypes ==
  /\ process \in Seq([session : Session, reader : Nat, alive : BOOLEAN, signalled : BOOLEAN])
  /\ inner \in {0, Len(process)}
  /\ output \in Seq(Told)
  /\ channel \in Nat /\ opened \in Anyone

Ready ==
  /\ call.step \in {"stopping", "spawning"} =>
       /\ argument \in Session /\ call.session \in Session /\ reader # 0
       /\ misnamed \/ argument = call.session
  /\ call.step = "sending" /\ call.prompt # 0 => call.session \in Session

OpenedInv ==
  /\ inner # 0 /\ opened # None /\ ~misnamed => process[inner].session = opened
  /\ Ready

ReaderInv ==
  /\ reader # 0 => reader = channel /\ events = channel
  /\ \A p \in DOMAIN process : process[p].reader <= channel
  /\ call.step = "probing" => reader = 0 /\ \A p \in DOMAIN process : process[p].reader < channel

(* The exit of process p is on its way to the reader, or in its hands.      *)
ExitOf(p) == [from |-> p, what |-> "exit"]

Unread(p) == inHand = ExitOf(p) \/ \E i \in DOMAIN output : output[i] = ExitOf(p)

LastIsTold ==
  process # <<>> /\ reader # 0 /\ process[Len(process)].reader = reader
    /\ ~process[Len(process)].alive /\ line = "up"
    => Unread(Len(process))

TransportInv == ProcessTypes /\ OpenedInv /\ ReaderInv /\ LastIsTold

(* What was written, and what the reader has in hand, is of a process there *)
(* is; so whatever is read back for the id of a new session is one.         *)
WrittenInv ==
  /\ \A i \in DOMAIN output : output[i].from \in DOMAIN process
  /\ inHand = Line!Nothing \/ inHand.from \in DOMAIN process

NamedInv ==
  call.step = "naming" =>
    /\ call.session \in Session /\ call.op \in {"create", "resume"}
    /\ call.op = "create" => live \in Session

LineOwnInv == TransportInv /\ WrittenInv /\ NamedInv

OwnInv ==
  /\ IF kind = "opencode" THEN CodeOwnInv ELSE AnswerGoesToAsker /\ ReplyShownOnce
  /\ IF kind = "xuexiaomi" THEN XxmOwnInv ELSE OneCopyPerSession
  /\ IF kind \in Local THEN LineOwnInv ELSE process = <<>>

-----------------------------------------------------------------------------
(* What a chat takes of a reply: merge_stream_chunk.                        *)

LEMMA LeastNumber ==
  ASSUME NEW T, T \subseteq Nat, T # {}
  PROVE  \E n \in T : \A m \in T : n <= m
<1> DEFINE R == OpToRel(<, Nat)
<1>1. IsWellFoundedOn(R, Nat)
  BY NatLessThanWellFounded, Zenon
<1>2. \A x, y \in Nat : x < y => <<x, y>> \in R
  BY DEF OpToRel
<1> HIDE DEF R
<1>3. PICK n \in T : \A m \in T : ~(<<m, n>> \in R)
  BY <1>1, WFMin
<1>4. ASSUME NEW m \in T PROVE n <= m
  <2>1. n \in Nat /\ m \in Nat /\ ~(m < n)
    BY <1>2, <1>3
  <2> QED
    BY <2>1
<1> QED
  BY <1>4

LEMMA PrefixIs ==
  ASSUME NEW s \in Seq(Nat), NEW t \in Seq(Nat)
  PROVE  Code!IsPrefix(s, t) <=> Len(s) <= Len(t) /\ \A k \in 1 .. Len(s) : s[k] = t[k]
<1>1. Len(s) \in Nat /\ Len(t) \in Nat
  BY LenProperties
<1>2. SubSeq(s, 1, Len(s)) = s
  BY SubSeqFull
<1>3. ASSUME Len(s) <= Len(t)
      PROVE  s = SubSeq(t, 1, Len(s)) <=> \A k \in 1 .. Len(s) : s[k] = t[k]
  <2> DEFINE u == SubSeq(t, 1, Len(s))
  <2>1. \A i \in 1 .. Len(s) : i \in 1 .. Len(t) /\ t[i] \in Nat
    BY <1>1, <1>3, ElementOfSeq
  <2>2. u \in Seq(Nat) /\ Len(u) = Len(s) /\ \A i \in 1 .. Len(s) : u[i] = t[i]
    <3>1. /\ u \in Seq(Nat) /\ Len(u) = (IF 1 <= Len(s) THEN Len(s) - 1 + 1 ELSE 0)
          /\ \A i \in 1 .. (Len(s) - 1 + 1) : u[i] = t[1 + i - 1]
      BY <1>1, <2>1, SubSeqProperties
    <3> QED
      BY <1>1, <3>1
  <2> HIDE DEF u
  <2>3. (\A k \in 1 .. Len(s) : s[k] = t[k]) => s = u
    BY <2>2, SeqEqual
  <2> QED
    BY <2>2, <2>3 DEF u
<1> QED
  BY <1>2, <1>3 DEF Code!IsPrefix

LEMMA ReverseIs ==
  ASSUME NEW s \in Seq(Nat)
  PROVE  /\ Code!Reverse(s) \in Seq(Nat) /\ Len(Code!Reverse(s)) = Len(s)
         /\ \A k \in 1 .. Len(s) : Code!Reverse(s)[k] = s[Len(s) - k + 1]
<1>1. Len(s) \in Nat /\ \A i \in 1 .. Len(s) : s[i] \in Nat
  BY LenProperties
<1>2. \A k \in 1 .. Len(s) : Len(s) - k + 1 \in 1 .. Len(s)
  BY <1>1
<1>3. Code!Reverse(s) = [i \in 1 .. Len(s) |-> s[(Len(s) - i) + 1]]
  BY DEF Code!Reverse
<1> DEFINE r == [i \in 1 .. Len(s) |-> s[(Len(s) - i) + 1]]
<1>4. r \in Seq(Nat) /\ Len(r) = Len(s)
  BY <1>1, <1>2
<1> QED
  BY <1>3, <1>4

LEMMA SuffixIs ==
  ASSUME NEW s \in Seq(Nat), NEW t \in Seq(Nat)
  PROVE  Code!IsSuffix(s, t) <=>
           Len(s) <= Len(t) /\ \A k \in 1 .. Len(s) : s[k] = t[Len(t) - Len(s) + k]
<1>1. Len(s) \in Nat /\ Len(t) \in Nat
  BY LenProperties
<1> DEFINE rs == Code!Reverse(s)
           rt == Code!Reverse(t)
<1>2. /\ rs \in Seq(Nat) /\ rt \in Seq(Nat) /\ Len(rs) = Len(s) /\ Len(rt) = Len(t)
      /\ \A k \in 1 .. Len(s) : rs[k] = s[Len(s) - k + 1]
      /\ \A k \in 1 .. Len(t) : rt[k] = t[Len(t) - k + 1]
  BY ReverseIs
<1>3. Code!IsSuffix(s, t) <=> Code!IsPrefix(rs, rt)
  BY DEF Code!IsSuffix
<1> HIDE DEF rs, rt
<1>4. Code!IsSuffix(s, t) <=> Len(s) <= Len(t) /\ \A k \in 1 .. Len(s) : rs[k] = rt[k]
  BY <1>2, <1>3, PrefixIs
<1>5. ASSUME Len(s) <= Len(t)
      PROVE  (\A k \in 1 .. Len(s) : rs[k] = rt[k])
               <=> \A k \in 1 .. Len(s) : s[k] = t[Len(t) - Len(s) + k]
  <2>1. \A k \in 1 .. Len(s) : /\ k \in 1 .. Len(t) /\ Len(s) - k + 1 \in 1 .. Len(s)
                               /\ Len(s) - (Len(s) - k + 1) + 1 = k
                               /\ Len(t) - (Len(s) - k + 1) + 1 = Len(t) - Len(s) + k
                               /\ Len(t) - Len(s) + (Len(s) - k + 1) = Len(t) - k + 1
                               /\ Len(s) - k + 1 \in 1 .. Len(t)
    BY <1>1, <1>5
  <2>2. \A k \in 1 .. Len(s) : rs[Len(s) - k + 1] = s[k] /\ rt[Len(s) - k + 1] = t[Len(t) - Len(s) + k]
    <3> TAKE k \in 1 .. Len(s)
    <3>1. rs[Len(s) - k + 1] = s[Len(s) - (Len(s) - k + 1) + 1]
      BY <1>2, <2>1
    <3>2. rt[Len(s) - k + 1] = t[Len(t) - (Len(s) - k + 1) + 1]
      BY <1>2, <2>1
    <3> QED
      BY <2>1, <3>1, <3>2
  <2>3. ASSUME \A k \in 1 .. Len(s) : rs[k] = rt[k]
        PROVE  \A k \in 1 .. Len(s) : s[k] = t[Len(t) - Len(s) + k]
    BY <2>1, <2>2, <2>3
  <2>4. ASSUME \A k \in 1 .. Len(s) : s[k] = t[Len(t) - Len(s) + k]
        PROVE  \A k \in 1 .. Len(s) : rs[k] = rt[k]
    <3> TAKE k \in 1 .. Len(s)
    <3>1. s[Len(s) - k + 1] = t[Len(t) - Len(s) + (Len(s) - k + 1)]
      BY <2>1, <2>4
    <3> QED
      BY <1>2, <2>1, <3>1
  <2> QED
    BY <2>3, <2>4
<1> QED
  BY <1>4, <1>5

LEMMA OverlapIs ==
  ASSUME NEW buffer \in Seq(Nat), NEW chunk \in Seq(Nat)
  PROVE  LET fits(n) == /\ n \in 0 .. Len(chunk) /\ n <= Len(buffer)
                        /\ Code!IsSuffix(SubSeq(chunk, 1, n), buffer)
         IN  /\ fits(Code!Overlap(buffer, chunk))
             /\ \A n : fits(n) => n <= Code!Overlap(buffer, chunk)
<1> DEFINE fits(n) == n \in 0 .. Len(chunk) /\ n <= Len(buffer) /\ Code!IsSuffix(SubSeq(chunk, 1, n), buffer)
           N == {n \in 0 .. Len(chunk) : n <= Len(buffer) /\ Code!IsSuffix(SubSeq(chunk, 1, n), buffer)}
           Rest == {Len(chunk) - n : n \in N}
<1>1. Len(chunk) \in Nat /\ Len(buffer) \in Nat
  BY LenProperties
<1>2. 0 \in N
  <2>1. SubSeq(chunk, 1, 0) = <<>>
    BY SubSeqEmpty
  <2>2. <<>> \in Seq(Nat) /\ Len(<<>>) = 0
    OBVIOUS
  <2>3. Code!IsSuffix(<<>>, buffer)
    <3>1. Len(<<>>) <= Len(buffer) /\ \A k \in 1 .. Len(<<>>) : <<>>[k] = buffer[Len(buffer) - Len(<<>>) + k]
      BY <1>1, <2>2
    <3> QED
      BY <2>2, <3>1, SuffixIs
  <2>4. Code!IsSuffix(SubSeq(chunk, 1, 0), buffer)
    BY <2>1, <2>3, Zenon
  <2>5. 0 \in 0 .. Len(chunk) /\ 0 <= Len(buffer)
    BY <1>1
  <2> QED
    BY <2>4, <2>5, Zenon
<1>3. N \subseteq 0 .. Len(chunk) /\ N # {}
  BY <1>2
<1>4. Code!Overlap(buffer, chunk) = Code!Max(N)
  BY DEF Code!Overlap
<1>5. \A n : fits(n) <=> n \in N
  OBVIOUS
<1> HIDE DEF N, fits
<1>6. Rest \subseteq Nat /\ Rest # {}
  <2>1. \A n \in N : Len(chunk) - n \in Nat
    BY <1>1, <1>3
  <2> QED
    BY <1>3, <2>1
<1>7. PICK r \in Rest : \A x \in Rest : r <= x
  <2> HIDE DEF Rest
  <2> QED
    BY <1>6, LeastNumber
<1>8. PICK m \in N : r = Len(chunk) - m
  BY <1>7
<1>9. ASSUME NEW n \in N PROVE m >= n
  <2>1. Len(chunk) - n \in Rest
    OBVIOUS
  <2>2. n \in Int /\ m \in Int
    BY <1>3
  <2>3. Len(chunk) - m <= Len(chunk) - n
    BY <1>7, <1>8, <2>1
  <2> QED
    BY <1>1, <2>2, <2>3
<1>10. Code!Max(N) \in N /\ \A n \in N : Code!Max(N) >= n
  BY <1>9 DEF Code!Max
<1>11. \A n \in N : n \in Int
  BY <1>3
<1>12. fits(Code!Overlap(buffer, chunk)) /\ \A n : fits(n) => n <= Code!Overlap(buffer, chunk)
  BY <1>4, <1>5, <1>10, <1>11
<1> QED
  BY <1>12 DEF fits

LEMMA PieceIs ==
  ASSUME NEW chunk \in Seq(Nat), NEW n \in 0 .. Len(chunk)
  PROVE  /\ SubSeq(chunk, 1, n) \in Seq(Nat) /\ Len(SubSeq(chunk, 1, n)) = n
         /\ \A i \in 1 .. n : SubSeq(chunk, 1, n)[i] = chunk[i]
<1>1. Len(chunk) \in Nat /\ \A i \in 1 .. n : i \in 1 .. Len(chunk) /\ chunk[i] \in Nat
  BY LenProperties, ElementOfSeq
<1>2. /\ SubSeq(chunk, 1, n) \in Seq(Nat) /\ Len(SubSeq(chunk, 1, n)) = (IF 1 <= n THEN n - 1 + 1 ELSE 0)
      /\ \A i \in 1 .. (n - 1 + 1) : SubSeq(chunk, 1, n)[i] = chunk[1 + i - 1]
  BY <1>1, SubSeqProperties
<1> QED
  BY <1>2

LEMMA TailIs ==
  ASSUME NEW S, NEW chunk \in Seq(S), NEW n \in 0 .. Len(chunk)
  PROVE  /\ SubSeq(chunk, n + 1, Len(chunk)) \in Seq(S)
         /\ Len(SubSeq(chunk, n + 1, Len(chunk))) = Len(chunk) - n
         /\ \A i \in 1 .. (Len(chunk) - n) : SubSeq(chunk, n + 1, Len(chunk))[i] = chunk[n + i]
<1>1. Len(chunk) \in Nat /\ \A i \in (n + 1) .. Len(chunk) : i \in 1 .. Len(chunk)
  BY LenProperties
<1>2. \A i \in (n + 1) .. Len(chunk) : chunk[i] \in S
  BY <1>1, ElementOfSeq
<1>3. /\ SubSeq(chunk, n + 1, Len(chunk)) \in Seq(S)
      /\ Len(SubSeq(chunk, n + 1, Len(chunk)))
           = (IF n + 1 <= Len(chunk) THEN Len(chunk) - (n + 1) + 1 ELSE 0)
      /\ \A i \in 1 .. (Len(chunk) - (n + 1) + 1) :
           SubSeq(chunk, n + 1, Len(chunk))[i] = chunk[n + 1 + i - 1]
  BY <1>1, <1>2, SubSeqProperties
<1>4. \A i \in 1 .. (Len(chunk) - n) : n + 1 + i - 1 = n + i
  BY <1>1
<1> QED
  BY <1>1, <1>3, <1>4

LEMMA MergedIsSeq ==
  ASSUME NEW S \in SUBSET Nat, NEW buffer \in Seq(S), NEW chunk \in Seq(S)
  PROVE  Code!MergeStreamChunk(buffer, chunk) \in Seq(S)
<1>1. Code!Overlap(buffer, chunk) \in 0 .. Len(chunk)
  <2>1. ASSUME NEW q \in Seq(S) PROVE q \in Seq(Nat)
    <3>1. Len(q) \in Nat /\ \A i \in 1 .. Len(q) : q[i] \in Nat
      BY LenProperties, ElementOfSeq
    <3>2. q = [i \in 1 .. Len(q) |-> q[i]]
      BY LenProperties
    <3> QED
      BY <3>1, <3>2
  <2> QED
    BY <2>1, OverlapIs
<1>2. buffer \o SubSeq(chunk, Code!Overlap(buffer, chunk) + 1, Len(chunk)) \in Seq(S)
  BY <1>1, TailIs, ConcatProperties
<1> QED
  BY <1>2 DEF Code!MergeStreamChunk

(* A reply read up to k, and a piece of it that begins where that ends, or  *)
(* before: what comes out is all there is of the reply.                     *)
LEMMA MergeCompletes ==
  ASSUME NEW buffer \in Seq(Nat), NEW chunk \in Seq(Nat), NEW from \in Nat, NEW said \in Nat,
         Len(buffer) <= said, from <= Len(buffer), from < said,
         \A i \in 1 .. Len(buffer) : buffer[i] = i,
         Len(chunk) = said - from, \A i \in 1 .. Len(chunk) : chunk[i] = from + i
  PROVE  LET merged == Code!MergeStreamChunk(buffer, chunk) IN
         Len(merged) = said /\ \A i \in 1 .. said : merged[i] = i
<1> DEFINE k == Len(buffer)
           m == Len(chunk)
           o == Code!Overlap(buffer, chunk)
<1>1. k \in Nat /\ m \in Nat /\ m > 0
  BY LenProperties
<1>5. (\A i \in 1 .. k : buffer[i] = i) /\ \A i \in 1 .. m : chunk[i] = from + i
  OBVIOUS
<1>2. CASE Code!IsPrefix(buffer, chunk)
  <2>1. k <= m /\ \A i \in 1 .. k : buffer[i] = chunk[i]
    BY <1>2, PrefixIs
  <2>2. from = 0
    <3>1. CASE k = 0
      BY <3>1
    <3>2. CASE k # 0
      <4>1. 1 \in 1 .. k /\ 1 \in 1 .. m
        BY <1>1, <3>2
      <4>2. buffer[1] = 1 /\ chunk[1] = from + 1
        BY <1>5, <4>1, Zenon
      <4>3. buffer[1] = chunk[1]
        BY <2>1, <4>1, Zenon
      <4> QED
        BY <4>2, <4>3
    <3> QED
      BY <3>1, <3>2
  <2> QED
    BY <1>2, <2>2 DEF Code!MergeStreamChunk
<1>3. CASE ~Code!IsPrefix(buffer, chunk) /\ Code!IsSuffix(chunk, buffer)
  <2>1. m <= k /\ \A i \in 1 .. m : chunk[i] = buffer[k - m + i]
    BY <1>3, SuffixIs
  <2>2. m \in 1 .. m /\ k - m + m = k /\ k \in 1 .. k
    BY <1>1, <2>1
  <2>3. k = said
    <3>1. chunk[m] = from + m /\ buffer[k] = k
      BY <1>5, <2>2, Zenon
    <3>2. chunk[m] = buffer[k - m + m]
      BY <2>1, <2>2, Zenon
    <3>3. chunk[m] = buffer[k]
      BY <2>2, <3>2
    <3> QED
      BY <1>1, <3>1, <3>3
  <2> QED
    BY <1>3, <2>3 DEF Code!MergeStreamChunk
<1>4. CASE ~Code!IsPrefix(buffer, chunk) /\ ~Code!IsSuffix(chunk, buffer)
  <2> DEFINE n == k - from
             piece == SubSeq(chunk, 1, n)
             rest == SubSeq(chunk, n + 1, Len(chunk))
  <2>1. n \in 0 .. m /\ n <= k
    BY <1>1
  <2>2. piece \in Seq(Nat) /\ Len(piece) = n /\ \A i \in 1 .. n : piece[i] = from + i
    <3>1. \A i \in 1 .. n : i \in 1 .. m
      BY <1>1
    <3> QED
      BY <2>1, <3>1, PieceIs
  <2>3. Code!IsSuffix(piece, buffer)
    <3>1. \A i \in 1 .. n : k - n + i = from + i /\ from + i \in 1 .. k
      BY <1>1
    <3> HIDE DEF piece
    <3>2. Len(piece) <= k /\ \A i \in 1 .. Len(piece) : piece[i] = buffer[k - Len(piece) + i]
      BY <2>1, <2>2, <3>1
    <3> QED
      BY <2>2, <3>2, SuffixIs
  <2>4. o \in 0 .. m /\ o <= k /\ Code!IsSuffix(SubSeq(chunk, 1, o), buffer) /\ n <= o
    BY <2>1, <2>3, OverlapIs
  <2> HIDE DEF o
  <2>5. o = n
    <3>1. CASE o = 0
      BY <2>1, <2>4, <3>1
    <3>2. CASE o # 0
      <4> DEFINE p == SubSeq(chunk, 1, o)
      <4>1. p \in Seq(Nat) /\ Len(p) = o /\ \A i \in 1 .. o : p[i] = chunk[i]
        BY <2>4, PieceIs
      <4>2. Code!IsSuffix(p, buffer)
        BY <2>4
      <4> HIDE DEF p
      <4>3. \A i \in 1 .. o : p[i] = buffer[k - o + i]
        BY <4>1, <4>2, SuffixIs
      <4>4. o \in 1 .. o /\ o \in 1 .. m /\ k - o + o = k /\ k \in 1 .. k
        BY <1>1, <2>4, <3>2
      <4>5. from + o = k
        BY <4>1, <4>3, <4>4
      <4> QED
        BY <1>1, <2>4, <4>5
    <3> QED
      BY <3>1, <3>2
  <2>6. /\ rest \in Seq(Nat) /\ Len(rest) = m - n
        /\ \A i \in 1 .. (m - n) : rest[i] = chunk[n + i]
    BY <2>1, TailIs
  <2> HIDE DEF rest
  <2>7. /\ Len(buffer \o rest) = k + (m - n)
        /\ \A i \in 1 .. k + (m - n) : (buffer \o rest)[i] = IF i <= k THEN buffer[i] ELSE rest[i - k]
    BY <2>6, ConcatProperties
  <2>8. k + (m - n) = said
    BY <1>1
  <2>9. ASSUME NEW i \in 1 .. said PROVE (buffer \o rest)[i] = i
    <3>1. CASE i <= k
      BY <2>7, <2>8, <3>1
    <3>2. CASE ~(i <= k)
      <4>1. i - k \in 1 .. (m - n) /\ n + (i - k) \in 1 .. m /\ from + (n + (i - k)) = i
        BY <1>1, <3>2
      <4> QED
        BY <2>6, <2>7, <2>8, <3>2, <4>1
    <3> QED
      BY <3>1, <3>2
  <2> QED
    BY <1>4, <2>5, <2>7, <2>8, <2>9 DEF Code!MergeStreamChunk, o, rest
<1> QED
  BY <1>2, <1>3, <1>4

-----------------------------------------------------------------------------
(* OpenCode. *)

USE DEF Code!contact, Code!view, Code!prompts, Code!callVars, Code!agentVars, Code!screenVars,
        Code!chatVars

(* The session of the call in progress, which the screen may become.        *)
LEMMA CodeCallIs ==
  ASSUME CodeOwnInv,
         \/ \E op, first : \E s \in Anyone : Code!Begin(op, s, first)
         \/ \E first : \E s \in Session : Code!BeginSubmit(s, first)
         \/ \E first : Code!BeginConnect(first)
         \/ call' = Code!NoCall
  PROVE  call'.session \in Anyone
BY DEF Code!Begin, Code!BeginSubmit, Code!BeginConnect, Code!NoCall, Code!NewCall, Anyone

(* What the chat has taken stays, or it starts anew.                        *)
LEMMA ChatKept ==
  ASSUME ChatInv, turn \in Code!Turn, turn' \in Code!Turn,
         Code!Anew \/ (UNCHANGED Code!chatVars /\ turn.said <= turn'.said)
  PROVE  ChatInv'
<1>1. turn.said \in Nat /\ turn'.said \in Nat
  BY BackendAssumption DEF Code!Turn
<1>2. CASE Code!Anew
  <2>1. bubble' = <<>> /\ missed' = FALSE
    BY <1>2 DEF Code!Anew
  <2>2. bubble' \in Seq(1 .. ReplyLength) /\ Len(bubble') = 0
    BY <2>1, EmptySeq
  <2>3. missed' \in BOOLEAN /\ Len(bubble') <= turn'.said
        /\ \A i \in 1 .. Len(bubble') : FALSE
    <3>1. \A i \in 1 .. 0 : FALSE
      OBVIOUS
    <3>2. 0 <= turn'.said
      BY <1>1
    <3> QED
      BY <2>1, <2>2, <3>1, <3>2, Zenon
  <2> QED
    BY <2>2, <2>3 DEF ChatInv
<1>3. CASE UNCHANGED Code!chatVars /\ turn.said <= turn'.said
  <2>1. Len(bubble) \in Nat /\ bubble' = bubble /\ missed' = missed
    BY <1>3 DEF ChatInv
  <2> QED
    BY <1>1, <1>3, <2>1 DEF ChatInv
<1> QED
  BY <1>2, <1>3

(* A piece of the reply is taken.                                           *)
LEMMA ShowsIs ==
  ASSUME ChatInv, turn \in Code!Turn, turn'.said = turn.said,
         NEW t, NEW from \in Nat, from <= turn.said, Code!Shows(t, from)
  PROVE  ChatInv'
<1>1. turn.said \in Nat /\ turn.said <= ReplyLength /\ ReplyLength \in Nat
  BY BackendAssumption DEF Code!Turn
<1>2. CASE UNCHANGED Code!chatVars
  BY <1>2 DEF ChatInv
<1>3. CASE /\ from < turn.said
           /\ bubble' = Code!MergeStreamChunk(bubble, Code!Piece(from))
           /\ missed' = (missed \/ from > Len(bubble))
  <2> DEFINE S == 1 .. ReplyLength
             chunk == Code!Piece(from)
  <2>1. /\ chunk \in Seq(S) /\ Len(chunk) = turn.said - from
        /\ \A i \in 1 .. Len(chunk) : chunk[i] = from + i
    <3>1. \A i \in 1 .. turn.said - from : from + i \in S
      BY <1>1
    <3> DEFINE n == turn.said - from
    <3>2. n \in Nat
      BY <1>1, <1>3
    <3>3. chunk = [i \in 1 .. n |-> from + i]
      BY DEF Code!Piece
    <3> HIDE DEF n, chunk, S
    <3>4. chunk \in Seq(S) /\ Len(chunk) = n /\ \A i \in 1 .. n : chunk[i] = from + i
      BY <3>1, <3>2, <3>3 DEF n
    <3> QED
      BY <3>4 DEF n
  <2>2. S \in SUBSET Nat /\ bubble \in Seq(S)
    BY <1>1 DEF ChatInv
  <2> HIDE DEF chunk, S
  <2>3. bubble' \in Seq(S) /\ missed' \in BOOLEAN
    BY <1>3, <2>1, <2>2, MergedIsSeq DEF ChatInv, chunk
  <2>4. ASSUME ~missed' PROVE Len(bubble') = turn.said /\ \A i \in 1 .. turn.said : bubble'[i] = i
    <3>1. ~missed /\ from <= Len(bubble)
      <4>1. Len(bubble) \in Nat
        BY <2>2, LenProperties
      <4>2. ~missed /\ ~(from > Len(bubble))
        BY <1>3, <2>4, Zenon
      <4> QED
        BY <4>1, <4>2
    <3>2. Len(bubble) <= turn.said /\ \A i \in 1 .. Len(bubble) : bubble[i] = i
      BY <3>1 DEF ChatInv
    <3>3. bubble \in Seq(Nat) /\ chunk \in Seq(Nat)
      <4>1. ASSUME NEW q \in Seq(S) PROVE q \in Seq(Nat)
        <5>1. Len(q) \in Nat /\ \A i \in 1 .. Len(q) : q[i] \in Nat
          BY <2>2, LenProperties, ElementOfSeq
        <5>2. q = [i \in 1 .. Len(q) |-> q[i]]
          BY LenProperties
        <5> QED
          BY <5>1, <5>2
      <4> QED
        BY <2>1, <2>2, <4>1
    <3>4. bubble' = Code!MergeStreamChunk(bubble, chunk)
      BY <1>3 DEF chunk
    <3> HIDE DEF chunk
    <3>5. LET merged == Code!MergeStreamChunk(bubble, chunk) IN
          Len(merged) = turn.said /\ \A i \in 1 .. turn.said : merged[i] = i
      BY <1>1, <1>3, <2>1, <3>1, <3>2, <3>3, MergeCompletes
    <3> QED
      BY <3>4, <3>5
  <2> QED
    BY <1>1, <2>3, <2>4 DEF ChatInv, S
<1> QED
  BY <1>2, <1>3 DEF Code!Shows

(* The stream is left: nothing is shown, nobody is known to have asked.     *)
LEMMA LeavingKeeps ==
  ASSUME CodeOwnInv, call'.session \in Anyone, shared' = Code!Cleared, Code!LeavesScreen,
         UNCHANGED Code!agentVars
  PROVE  CodeOwnInv'
<1>1. /\ shared' \in [active : Anyone, permissions : [Code!Request -> Anyone],
                      known : BOOLEAN, text : 0 .. ReplyLength]
      /\ shared'.permissions = [r \in Code!Request |-> None] /\ shared'.text = 0
  BY BackendAssumption DEF Code!Cleared, Code!Nobody, Anyone
<1>2. turn.said \in Nat /\ turn \in Code!Turn
  BY BackendAssumption DEF CodeOwnInv, CodeTypes, Code!Turn
<1>3. ChatInv'
  BY <1>2, ChatKept DEF CodeOwnInv, Code!LeavesScreen, Code!MayEndTurn
<1> QED
  BY <1>1, <1>2, <1>3
  DEF CodeOwnInv, CodeTypes, AskerInv, ToldInv, AnswerGoesToAsker, Code!AnswerGoesToAsker, Code!LeavesScreen

(* Who asked stays as it is, and what is shown stays within what was said.  *)
LEMMA ShowingKeeps ==
  ASSUME CodeOwnInv, call'.session \in Anyone,
         NEW a \in Anyone, NEW k \in BOOLEAN, NEW x \in 0 .. ReplyLength,
         shared' = [active |-> a, permissions |-> shared.permissions, known |-> k, text |-> x],
         turn' \in Code!Turn, x <= turn'.said, turn'.told <= turn'.said,
         turn'.session = None => turn'.said = 0,
         ChatInv', UNCHANGED <<questions, asked, answers>>
  PROVE  CodeOwnInv'
<1>1. shared.permissions \in [Code!Request -> Anyone]
  BY DEF CodeOwnInv, CodeTypes
<1>2. /\ shared' \in [active : Anyone, permissions : [Code!Request -> Anyone],
                      known : BOOLEAN, text : 0 .. ReplyLength]
      /\ shared'.permissions = shared.permissions /\ shared'.text = x
  BY <1>1
<1> QED
  BY <1>2 DEF CodeOwnInv, CodeTypes, AskerInv, ToldInv, AnswerGoesToAsker, Code!AnswerGoesToAsker

LEMMA SharedIs ==
  ASSUME CodeOwnInv
  PROVE  /\ shared = [active |-> shared.active, permissions |-> shared.permissions,
                      known |-> shared.known, text |-> shared.text]
         /\ shared.active \in Anyone /\ shared.known \in BOOLEAN /\ shared.text \in 0 .. ReplyLength
         /\ shared.text \in Nat /\ turn.said \in 0 .. ReplyLength /\ turn.said \in Nat /\ turn \in Code!Turn
         /\ turn.told \in 0 .. ReplyLength /\ turn.told \in Nat
         /\ ChatInv /\ shared.text <= turn.said /\ turn.told <= turn.said
         /\ turn.session = None => turn.said = 0
         /\ turn = [session |-> turn.session, said |-> turn.said, told |-> turn.told]
         /\ turn.session \in Anyone
BY BackendAssumption DEF CodeOwnInv, CodeTypes, ToldInv, Code!Turn, Anyone

(* A step that leaves the turn and what was seen of it.                     *)
LEMMA SeenKept ==
  ASSUME CodeOwnInv, call'.session \in Anyone, UNCHANGED <<shared, turn, questions, asked, answers>>,
         Code!MayEndTurn
  PROVE  CodeOwnInv'
<1>1. ChatInv'
  BY SharedIs, ChatKept DEF Code!MayEndTurn
<1> QED
  BY <1>1, SharedIs, ShowingKeeps

LEMMA CodeOwnStep ==
  ASSUME CodeOwnInv, Code!OpenCodeNext
  PROVE  CodeOwnInv'
<1> USE SharedIs
<1>1. CASE Code!CodeConnect
  BY <1>1, CodeCallIs, LeavingKeeps DEF Code!CodeConnect
<1>2. CASE Code!CodeDisconnect
  <2>1. call'.session \in Anyone
    BY <1>2 DEF Code!CodeDisconnect, Code!CallDisconnect, CodeOwnInv, CodeTypes
  <2> QED
    BY <1>2, <2>1, LeavingKeeps DEF Code!CodeDisconnect
<1>4. CASE Code!CodeProbed
  <2>1. call' = Code!NoCall /\ UNCHANGED <<shared, turn, bubble, missed, questions, asked, answers>>
    BY <1>4 DEF Code!CodeProbed, Code!Return
  <2> QED
    BY <2>1, CodeCallIs, SeenKept DEF Code!MayEndTurn
<1>5. CASE Code!CodeClearSessionScope
  <2>1. /\ shared' = [active |-> None, permissions |-> shared.permissions,
                      known |-> shared.known, text |-> shared.text]
        /\ call' = call /\ Code!Anew /\ UNCHANGED <<turn, questions, asked, answers>>
    BY <1>5 DEF Code!CodeClearSessionScope, Code!CallClearScope
  <2>2. call'.session \in Anyone /\ None \in Anyone /\ ChatInv'
    BY <2>1, ChatKept DEF CodeOwnInv, CodeTypes, Anyone
  <2> QED
    BY <2>1, <2>2, ShowingKeeps
<1>6. CASE Code!CodeCallBegins
  <2>1. UNCHANGED <<turn, questions, asked, answers>>
    BY <1>6 DEF Code!CodeCallBegins
  <2>2. CASE Code!Anew /\ \E s \in Session : Code!BeginSubmit(s, "http") /\ shared' = [shared EXCEPT !.active = s]
    <3>1. PICK s \in Session : Code!BeginSubmit(s, "http") /\ shared' = [shared EXCEPT !.active = s]
      BY <2>2
    <3>2. shared' = [active |-> s, permissions |-> shared.permissions,
                     known |-> shared.known, text |-> shared.text]
      BY <3>1
    <3>3. call'.session \in Anyone /\ s \in Anyone
      BY <3>1, CodeCallIs DEF Anyone
    <3>4. ChatInv'
      BY <2>1, <2>2, ChatKept
    <3> QED
      BY <2>1, <3>2, <3>3, <3>4, ShowingKeeps
  <2>3. CASE UNCHANGED <<shared, Code!chatVars>> /\ \E op : \E s \in Anyone : Code!Begin(op, s, "http")
    BY <2>1, <2>3, CodeCallIs, SeenKept DEF Code!MayEndTurn
  <2> QED
    BY <1>6, <2>2, <2>3 DEF Code!CodeCallBegins, Anyone
<1>7. CASE Code!CodeResponds
  <2>1. PICK r \in Code!Request :
          /\ r \in questions /\ Code!Asker(r) # None
          /\ Code!Begin("respond", None, "http")
          /\ answers' = [answers EXCEPT ![r] = Code!Asker(r)]
          /\ shared' = [shared EXCEPT !.permissions[r] = None]
          /\ questions' = questions \ {r}
          /\ UNCHANGED <<turn, Code!chatVars, asked>>
    BY <1>7 DEF Code!CodeResponds
  <2>2. /\ shared.permissions \in [Code!Request -> Anyone]
        /\ answers \in [Code!Request -> Anyone] /\ asked \in [Code!Request -> Anyone]
        /\ questions \subseteq Code!Request
    BY DEF CodeOwnInv, CodeTypes
  <2>3. shared.permissions[r] # None /\ shared.permissions[r] = asked[r] /\ Code!Asker(r) = asked[r]
    BY <2>1 DEF CodeOwnInv, AskerInv, Code!Asker
  <2> DEFINE p == [shared.permissions EXCEPT ![r] = None]
  <2>4. shared' = [active |-> shared.active, permissions |-> p,
                   known |-> shared.known, text |-> shared.text]
    BY <2>1
  <2>5. /\ p \in [Code!Request -> Anyone] /\ p[r] = None
        /\ \A q \in Code!Request \ {r} : p[q] = shared.permissions[q]
    BY <2>2 DEF Anyone
  <2> HIDE DEF p
  <2>6. call'.session \in Anyone
    BY <2>1, CodeCallIs DEF Anyone
  <2>7. shared'.permissions = p /\ shared'.text = shared.text
    BY <2>4
  <2>8. shared' \in [active : Anyone, permissions : [Code!Request -> Anyone],
                     known : BOOLEAN, text : 0 .. ReplyLength]
    BY <2>4, <2>5
  <2>9. AskerInv'
    BY <2>1, <2>2, <2>3, <2>5, <2>7 DEF CodeOwnInv, AskerInv, AnswerGoesToAsker, Code!AnswerGoesToAsker
  <2>10. answers' \in [Code!Request -> Anyone]
    BY <2>1, <2>2, <2>3
  <2>11. ChatInv'
    BY <2>1, ChatKept
  <2> QED
    BY <2>1, <2>2, <2>6, <2>7, <2>8, <2>9, <2>10, <2>11 DEF CodeOwnInv, CodeTypes, ToldInv
<1>8. CASE Code!CodeAnswered
  <2>1. call' = Code!NoCall /\ UNCHANGED <<turn, questions, asked, answers>>
    BY <1>8 DEF Code!CodeAnswered, Code!ReturnSession
  <2>2. call'.session \in Anyone /\ call.session \in Anyone
    BY <2>1, CodeCallIs DEF CodeOwnInv, CodeTypes
  <2>3. CASE UNCHANGED <<shared, Code!chatVars>>
    BY <2>1, <2>2, <2>3, SeenKept DEF Code!MayEndTurn
  <2>4. CASE shared' = [shared EXCEPT !.active = call.session] /\ Code!MayEndTurn
    <3>1. shared' = [active |-> call.session, permissions |-> shared.permissions,
                     known |-> shared.known, text |-> shared.text]
      BY <2>4
    <3>2. ChatInv'
      BY <2>1, <2>4, ChatKept DEF Code!MayEndTurn
    <3> QED
      BY <2>1, <2>2, <3>1, <3>2, ShowingKeeps
  <2> QED
    BY <1>8, <2>3, <2>4 DEF Code!CodeAnswered, Code!MayEndTurn
<1>9. CASE Code!TurnStarts \/ Code!ReplyGrows \/ Code!PartUnheard
  <2>1. UNCHANGED <<shared, Code!chatVars, questions, asked, answers>> /\ call' = call
    BY <1>9 DEF Code!TurnStarts, Code!ReplyGrows, Code!PartUnheard
  <2>2. /\ turn' \in Code!Turn /\ turn.said <= turn'.said /\ turn'.told <= turn'.said
        /\ turn'.session = None => turn'.said = 0
    <3>1. CASE Code!TurnStarts
      <4>1. PICK s \in Session : turn' = [session |-> s, said |-> 0, told |-> 0]
        BY <3>1 DEF Code!TurnStarts, Code!NoTurn
      <4>2. turn.said = 0 /\ s # None /\ s \in Session \cup {None} /\ 0 \in 0 .. ReplyLength
        BY <3>1, BackendAssumption, CallsAssumption DEF Code!TurnStarts
      <4> QED
        BY <4>1, <4>2 DEF Code!Turn
    <3>2. CASE Code!ReplyGrows
      <4>1. /\ turn' = [session |-> turn.session, said |-> turn.said + 1, told |-> turn.told]
            /\ turn.said + 1 \in 0 .. ReplyLength /\ turn.session # None
        BY <3>2, BackendAssumption DEF Code!ReplyGrows
      <4> QED
        BY <4>1 DEF Code!Turn, Anyone
    <3>3. CASE Code!PartUnheard
      <4>1. turn' = [session |-> turn.session, said |-> turn.said, told |-> turn.said]
        BY <3>3 DEF Code!PartUnheard
      <4> QED
        BY <4>1 DEF Code!Turn, Anyone
    <3> QED
      BY <1>9, <3>1, <3>2, <3>3
  <2>3. call'.session \in Anyone /\ turn'.said \in Nat
    BY <2>1, <2>2, BackendAssumption DEF CodeOwnInv, CodeTypes, Code!Turn
  <2>4. shared.text <= turn'.said
    BY <2>2, <2>3
  <2>5. ChatInv'
    BY <2>1, <2>2, ChatKept
  <2> QED
    BY <2>1, <2>2, <2>3, <2>4, <2>5, ShowingKeeps
<1>10. CASE Code!TurnEndsUnheard \/ \E t \in DOMAIN streams : Code!SessionIdle(t)
  <2>1. /\ shared' = [shared EXCEPT !.text = 0, !.known = FALSE]
        /\ turn' = [session |-> None, said |-> 0, told |-> 0] /\ Code!Anew
        /\ UNCHANGED <<questions, asked, answers>> /\ call' = call
    BY <1>10 DEF Code!TurnEndsUnheard, Code!SessionIdle, Code!Passes, Code!TurnEnds, Code!NoTurn
  <2>2. shared' = [active |-> shared.active, permissions |-> shared.permissions,
                   known |-> FALSE, text |-> 0]
    BY <2>1
  <2>3. /\ call'.session \in Anyone /\ turn' \in Code!Turn /\ turn'.said = 0 /\ turn'.told <= turn'.said
        /\ 0 <= turn'.said /\ 0 \in 0 .. ReplyLength
    BY <2>1, BackendAssumption DEF CodeOwnInv, CodeTypes, Code!Turn
  <2>4. ChatInv'
    BY <2>1, <2>3, ChatKept
  <2> QED
    BY <2>1, <2>2, <2>3, <2>4, ShowingKeeps
<1>11. ASSUME NEW t \in DOMAIN streams,
              \/ Code!CodeOpens(t) \/ Code!CodeAborts(t) \/ Code!CodeBreaks(t) \/ Code!OtherFrame(t)
       PROVE  CodeOwnInv'
  <2>1. UNCHANGED <<shared, turn, questions, asked, answers>> /\ call' = call /\ Code!MayEndTurn
    BY <1>11 DEF Code!CodeOpens, Code!CodeAborts, Code!CodeBreaks, Code!OtherFrame, Code!Passes, Code!Ends,
                 Code!MayEndTurn
  <2> QED
    BY <2>1, SeenKept DEF CodeOwnInv, CodeTypes
<1>12. ASSUME NEW t \in DOMAIN streams, Code!MessageUpdated(t) \/ Code!PartUpdated(t)
       PROVE  CodeOwnInv'
  <2>1. call' = call /\ UNCHANGED <<questions, asked, answers>> /\ call'.session \in Anyone
    BY <1>12 DEF Code!MessageUpdated, Code!PartUpdated, Code!Passes, CodeOwnInv, CodeTypes
  <2>2. CASE Code!MessageUpdated(t)
    <3>1. shared' = [active |-> shared.active, permissions |-> shared.permissions,
                     known |-> TRUE, text |-> shared.text]
      BY <2>2 DEF Code!MessageUpdated
    <3>2. turn' = turn /\ ChatInv'
      BY <2>2, ChatKept DEF Code!MessageUpdated
    <3> QED
      BY <2>1, <3>1, <3>2, ShowingKeeps
  <2>3. CASE Code!PartUpdated(t)
    <3>1. /\ turn' = turn \/ turn' = [session |-> turn.session, said |-> turn.said, told |-> turn.said]
          /\ turn.session # None
      BY <2>3 DEF Code!PartUpdated
    <3>2. turn' \in Code!Turn /\ turn'.said = turn.said /\ turn'.told <= turn'.said /\ turn'.session # None
      BY <3>1 DEF Code!Turn, Anyone
    <3>3. PICK x \in {shared.text, turn.said}, from \in {turn.told, shared.text} :
            /\ Code!Shows(t, from)
            /\ shared' = [active |-> shared.active, permissions |-> shared.permissions,
                          known |-> shared.known, text |-> x]
      BY <2>3 DEF Code!PartUpdated
    <3>4. ChatInv'
      BY <3>2, <3>3, ShowsIs
    <3> QED
      BY <2>1, <3>2, <3>3, <3>4, ShowingKeeps
  <2> QED
    BY <1>12, <2>2, <2>3
<1>13. ASSUME NEW t \in DOMAIN streams, Code!PermissionUpdated(t)
       PROVE  CodeOwnInv'
  <2>1. PICK r \in Code!Request, s \in Session :
          /\ asked[r] = None
          /\ asked' = [asked EXCEPT ![r] = s]
          /\ shared' = [shared EXCEPT !.permissions[r] = s]
          /\ questions' \in {questions, questions \cup {r}}
          /\ call' = call /\ UNCHANGED <<turn, Code!chatVars, answers>>
    BY <1>13 DEF Code!PermissionUpdated, Code!Passes
  <2>2. /\ shared.permissions \in [Code!Request -> Anyone]
        /\ answers \in [Code!Request -> Anyone] /\ asked \in [Code!Request -> Anyone]
        /\ questions \subseteq Code!Request /\ call'.session \in Anyone /\ s # None
    BY <2>1, CallsAssumption DEF CodeOwnInv, CodeTypes
  <2> DEFINE p == [shared.permissions EXCEPT ![r] = s]
  <2>3. shared' = [active |-> shared.active, permissions |-> p,
                   known |-> shared.known, text |-> shared.text]
    BY <2>1
  <2>4. /\ p \in [Code!Request -> Anyone] /\ p[r] = s
        /\ \A q \in Code!Request \ {r} : p[q] = shared.permissions[q]
    BY <2>2 DEF Anyone
  <2> HIDE DEF p
  <2>5. shared'.permissions = p /\ shared'.text = shared.text
    BY <2>3
  <2>6. shared' \in [active : Anyone, permissions : [Code!Request -> Anyone],
                     known : BOOLEAN, text : 0 .. ReplyLength]
    BY <2>3, <2>4
  <2>7. answers[r] = None
    BY <2>1, <2>2 DEF CodeOwnInv, AskerInv, AnswerGoesToAsker, Code!AnswerGoesToAsker
  <2>8. AskerInv'
    BY <2>1, <2>2, <2>4, <2>5, <2>7 DEF CodeOwnInv, AskerInv, AnswerGoesToAsker, Code!AnswerGoesToAsker
  <2>9. asked' \in [Code!Request -> Anyone] /\ questions' \subseteq Code!Request
    BY <2>1, <2>2 DEF Anyone
  <2>10. ChatInv'
    BY <2>1, ChatKept
  <2> QED
    BY <2>1, <2>2, <2>5, <2>6, <2>8, <2>9, <2>10 DEF CodeOwnInv, CodeTypes, ToldInv
<1> QED
  BY <1>1, <1>2, <1>4, <1>5, <1>6, <1>7, <1>8, <1>9, <1>10, <1>11, <1>12, <1>13
  DEF Code!OpenCodeNext, Code!CodeCallStep, Code!CodeTaskStep, Code!CodeFrame

-----------------------------------------------------------------------------
(* Xuexiaomi. *)

USE DEF Xxm!contact, Xxm!view, Xxm!prompts, Xxm!callVars, Xxm!gatewayKeeps, Xxm!xxmVars, xxmVars

(* A turn that moves on stays the turn of its session and its copy.         *)
SameTurn(t, u) == t.session = u.session /\ t.target = u.target

SameTurns(q, r) == DOMAIN r = DOMAIN q /\ \A i \in DOMAIN q : SameTurn(q[i], r[i])

LEMMA TurnMoves ==
  ASSUME NEW t \in Xxm!StreamedTurn, NEW state \in {"streaming", "aborted", "ended"}, NEW o \in BOOLEAN
  PROVE  /\ [t EXCEPT !.task = state] \in Xxm!StreamedTurn /\ SameTurn(t, [t EXCEPT !.task = state])
         /\ [t EXCEPT !.over = o] \in Xxm!StreamedTurn /\ SameTurn(t, [t EXCEPT !.over = o])
         /\ [t EXCEPT !.over = o].over = o
         /\ SameTurn(t, [t EXCEPT !.task = state, !.over = o])
         /\ [t EXCEPT !.task = state, !.over = o] \in Xxm!StreamedTurn
BY DEF Xxm!StreamedTurn, SameTurn

LEMMA TurnsMove ==
  ASSUME NEW q \in Seq(Xxm!StreamedTurn), NEW r, r = [i \in DOMAIN q |-> r[i]],
         \A i \in DOMAIN q : r[i] \in Xxm!StreamedTurn /\ SameTurn(q[i], r[i])
  PROVE  r \in Seq(Xxm!StreamedTurn) /\ SameTurns(q, r) /\ Len(r) = Len(q)
<1>1. Len(q) \in Nat /\ DOMAIN q = 1 .. Len(q)
  OBVIOUS
<1>2. r \in [1 .. Len(q) -> Xxm!StreamedTurn]
  BY <1>1
<1> QED
  BY <1>1, <1>2 DEF SameTurns

(* Some turns are told that they are over, or that nobody reads them.       *)
LEMMA TurnsAborted ==
  ASSUME NEW q \in Seq(Xxm!StreamedTurn), NEW S,
         NEW r, r = [i \in DOMAIN q |-> IF i \in S THEN [q[i] EXCEPT !.task = "aborted"] ELSE q[i]]
  PROVE  r \in Seq(Xxm!StreamedTurn) /\ SameTurns(q, r)
<1>1. ASSUME NEW i \in DOMAIN q
      PROVE  r[i] \in Xxm!StreamedTurn /\ SameTurn(q[i], r[i])
  <2>1. q[i] \in Xxm!StreamedTurn
    OBVIOUS
  <2>2. r[i] = [q[i] EXCEPT !.task = "aborted"] \/ r[i] = q[i]
    OBVIOUS
  <2> QED
    BY <2>1, <2>2, TurnMoves DEF SameTurn
<1>2. r = [i \in DOMAIN q |-> r[i]]
  OBVIOUS
<1> QED
  BY <1>1, <1>2, TurnsMove

LEMMA TurnsOver ==
  ASSUME NEW q \in Seq(Xxm!StreamedTurn), NEW S,
         NEW r, r = [i \in DOMAIN q |-> IF i \in S THEN [q[i] EXCEPT !.over = TRUE] ELSE q[i]]
  PROVE  /\ r \in Seq(Xxm!StreamedTurn) /\ SameTurns(q, r)
         /\ \A i \in DOMAIN q : i \in S => r[i].over
<1>1. ASSUME NEW i \in DOMAIN q
      PROVE  r[i] \in Xxm!StreamedTurn /\ SameTurn(q[i], r[i]) /\ (i \in S => r[i].over)
  <2>1. q[i] \in Xxm!StreamedTurn
    OBVIOUS
  <2>2. IF i \in S THEN r[i] = [q[i] EXCEPT !.over = TRUE] ELSE r[i] = q[i]
    OBVIOUS
  <2> QED
    BY <2>1, <2>2, TurnMoves DEF SameTurn
<1>2. r = [i \in DOMAIN q |-> r[i]]
  OBVIOUS
<1> QED
  BY <1>1, <1>2, TurnsMove

(* A step that starts no turn and makes no copy.                            *)
LEMMA SameTurnsKeep ==
  ASSUME XxmOwnInv, turns' \in Seq(Xxm!StreamedTurn), SameTurns(turns, turns'),
         bound' \in [{"call", "submit", "frame", "fault"} -> Nat], channel' \in Nat, events' \in Nat,
         readOnly' \subseteq Snapshot, copies' \in [Session -> Nat], continued' = continued,
         call'.step \in {"continuing", "posting", "taken"} => call'.session \in Session,
         call'.step = "continuing" => call'.session \in Snapshot /\ continued[call'.session] = 0,
         call'.step = "taken" => ~(call'.session \in Snapshot /\ continued[call'.session] = 0)
  PROVE  XxmOwnInv'
<1>1. \A i \in DOMAIN turns' :
        /\ turns'[i].target = continued[turns'[i].session]
        /\ turns'[i].session \in Snapshot => turns'[i].target # 0
  BY DEF XxmOwnInv, CopyInv, SameTurns, SameTurn
<1> QED
  BY <1>1 DEF XxmOwnInv, XxmTypes, CopyInv, Xxm!Refuses, Xxm!Target

LEMMA SpendIs ==
  ASSUME NEW c \in {"call", "submit", "frame", "fault"}, Xxm!Spend(c),
         bound \in [{"call", "submit", "frame", "fault"} -> Nat]
  PROVE  bound' \in [{"call", "submit", "frame", "fault"} -> Nat] /\ bound' # bound
BY DEF Xxm!Spend

LEMMA XxmOwnStep ==
  ASSUME XxmOwnInv, Xxm!XueXiaoMiNext
  PROVE  /\ XxmOwnInv'
         /\ Xxm!StopReachesTheTurn
<1> DEFINE Plain(c) == c.step \notin {"continuing", "posting", "taken"}
           Stopping == call.step = "http" /\ call.op = "interrupt"
<1>0. /\ turns \in Seq(Xxm!StreamedTurn) /\ Len(turns) \in Nat /\ DOMAIN turns = 1 .. Len(turns)
      /\ SameTurns(turns, turns)
      /\ bound \in [{"call", "submit", "frame", "fault"} -> Nat] /\ channel \in Nat /\ events \in Nat
      /\ readOnly \subseteq Snapshot /\ copies \in [Session -> Nat] /\ continued \in [Session -> Nat]
      /\ Snapshot \subseteq Session
  BY BackendAssumption DEF XxmOwnInv, XxmTypes, SameTurns, SameTurn
<1>k. /\ call.step \in {"continuing", "posting", "taken"} => call.session \in Session
      /\ call.step = "continuing" => call.session \in Snapshot /\ continued[call.session] = 0
      /\ call.step = "taken" => ~(call.session \in Snapshot /\ continued[call.session] = 0)
  BY DEF XxmOwnInv, XxmTypes, CopyInv, Xxm!Refuses, Xxm!Target
<1>s. (~Stopping \/ call' = call \/ bound' # bound) => Xxm!StopReachesTheTurn
  BY DEF Xxm!StopReachesTheTurn, Xxm!Interrupted, Xxm!At
<1>1. CASE Xxm!XxmConnect \/ Xxm!XxmDisconnect
  <2>1. /\ turns' = Xxm!Drained /\ events' = 0 /\ UNCHANGED <<readOnly, continued, copies>>
        /\ channel' \in {channel, channel + 1} /\ Xxm!Spend("call") /\ call.step = "idle"
        /\ call' = call \/ call'.step = "probing"
    BY <1>1 DEF Xxm!XxmConnect, Xxm!XxmDisconnect, Xxm!Disconnects, Xxm!BeginConnect, Xxm!CallDisconnect,
                Xxm!NewCall, Xxm!Idle
  <2>2. turns' \in Seq(Xxm!StreamedTurn) /\ SameTurns(turns, turns')
    <3> DEFINE S == {i \in DOMAIN turns : turns[i].task = "streaming" /\ running[turns[i].session] = i}
    <3>1. turns' = [i \in DOMAIN turns |-> IF i \in S THEN [turns[i] EXCEPT !.task = "aborted"] ELSE turns[i]]
      BY <2>1 DEF Xxm!Drained
    <3> HIDE DEF S
    <3> QED
      BY <1>0, <3>1, TurnsAborted
  <2>3. bound' \in [{"call", "submit", "frame", "fault"} -> Nat]
    BY <1>0, <2>1, SpendIs
  <2> QED
    BY <1>0, <1>k, <1>s, <2>1, <2>2, <2>3, SameTurnsKeep
<1>2. CASE /\ UNCHANGED <<turns, continued, channel>>
           /\ bound' \in [{"call", "submit", "frame", "fault"} -> Nat] /\ events' \in Nat
           /\ readOnly' \subseteq Snapshot /\ copies' \in [Session -> Nat]
           /\ call' = call \/ Plain(call')
           /\ ~Stopping \/ call' = call \/ bound' # bound
  BY <1>0, <1>k, <1>s, <1>2, SameTurnsKeep
<1>3. CASE Xxm!XxmClearSessionScope
  <2>1. Xxm!Spend("call") /\ call' = call /\ UNCHANGED <<turns, continued, channel, events, readOnly, copies>>
    BY <1>3 DEF Xxm!XxmClearSessionScope, Xxm!CallClearScope
  <2> QED
    BY <1>0, <1>2, <2>1, SpendIs
<1>4. CASE Xxm!XxmProbed
  <2>1. /\ call' = Xxm!NoCall /\ call.step = "probing"
        /\ events' \in {events, channel} /\ (bound' = bound \/ Xxm!Spend("fault"))
        /\ UNCHANGED <<turns, continued, channel, readOnly, copies>>
    BY <1>4 DEF Xxm!XxmProbed, Xxm!Greets, Xxm!At
  <2>2. call'.step = "idle"
    BY <2>1 DEF Xxm!NoCall, Xxm!NewCall
  <2> QED
    BY <1>0, <1>2, <2>1, <2>2, SpendIs
<1>5. CASE Xxm!XxmCallBegins
  <2>1. call.step = "idle" /\ UNCHANGED <<turns, continued, channel, events, readOnly, copies>>
    BY <1>5 DEF Xxm!XxmCallBegins, Xxm!Begin, Xxm!BeginSubmit, Xxm!Idle
  <2>2. bound' \in [{"call", "submit", "frame", "fault"} -> Nat]
    <3>1. Xxm!Spend("call") \/ Xxm!Spend("submit")
      BY <1>5 DEF Xxm!XxmCallBegins, Xxm!Begin, Xxm!BeginSubmit
    <3> QED
      BY <1>0, <3>1, SpendIs
  <2>3. CASE \E op, s : \E first \in {"http", "known"} : Xxm!Begin(op, s, first)
    <3>1. call'.step \in {"http", "known"}
      BY <2>3 DEF Xxm!Begin, Xxm!NewCall
    <3> QED
      BY <1>0, <1>2, <2>1, <2>2, <3>1
  <2>4. CASE \E s \in Session :
               Xxm!BeginSubmit(s, IF Xxm!IsContinuedFirst(s) THEN "continuing" ELSE "posting")
    <3>1. PICK s \in Session :
               Xxm!BeginSubmit(s, IF Xxm!IsContinuedFirst(s) THEN "continuing" ELSE "posting")
      BY <2>4
    <3>2. /\ call'.session = s
          /\ call'.step = IF Xxm!IsContinuedFirst(s) THEN "continuing" ELSE "posting"
      BY <3>1 DEF Xxm!BeginSubmit, Xxm!NewCall
    <3>3. call'.step = "continuing" => s \in Snapshot /\ continued[s] = 0
      BY <1>0, <3>2 DEF Xxm!IsContinuedFirst
    <3>4. call'.step # "taken"
      BY <3>2
    <3> QED
      BY <1>0, <1>s, <2>1, <2>2, <3>2, <3>3, <3>4, SameTurnsKeep
  <2> QED
    BY <1>5, <2>3, <2>4 DEF Xxm!XxmCallBegins
<1>6. CASE Xxm!XxmOpens \/ Xxm!XxmListed \/ Xxm!XxmResumed
  <2>1. /\ UNCHANGED <<turns, continued, channel, events, copies, bound>>
        /\ ~Stopping /\ readOnly' \subseteq readOnly \cup Snapshot
    BY <1>6 DEF Xxm!XxmOpens, Xxm!XxmListed, Xxm!XxmResumed, Xxm!At, Xxm!Learns,
                Xxm!ReturnSession, Xxm!Return, Xxm!Goto
  <2>2. CASE Xxm!XxmOpens \/ Xxm!XxmListed
    <3>1. call' = Xxm!NoCall
      BY <2>2 DEF Xxm!XxmOpens, Xxm!XxmListed, Xxm!ReturnSession, Xxm!Return
    <3>2. call'.step = "idle"
      BY <3>1 DEF Xxm!NoCall, Xxm!NewCall
    <3> QED
      BY <1>0, <1>2, <2>1, <3>2
  <2>3. CASE Xxm!XxmResumed
    <3>1. call' = [call EXCEPT !.step = "known", !.reply = "none"]
      BY <2>3 DEF Xxm!XxmResumed, Xxm!Goto
    <3>2. call'.step \in {"known", call.step} /\ call.step = "http"
      BY <2>3, <3>1 DEF Xxm!XxmResumed, Xxm!At
    <3> QED
      BY <1>0, <1>2, <2>1, <3>2
  <2> QED
    BY <1>6, <2>2, <2>3
<1>7. CASE Xxm!XxmInterrupts
  <2> DEFINE S == {i \in DOMAIN turns :
                    turns[i].session = call.session /\ turns[i].target = Xxm!StopTarget(call.session)}
  <2>1. /\ turns' = [i \in DOMAIN turns |-> IF i \in S THEN [turns[i] EXCEPT !.over = TRUE] ELSE turns[i]]
        /\ call' = Xxm!NoCall
        /\ UNCHANGED <<continued, channel, events, copies, readOnly, bound>>
    BY <1>7 DEF Xxm!XxmInterrupts, Xxm!Return
  <2>2. \A i \in DOMAIN turns : turns[i].session = call.session => i \in S
    BY DEF XxmOwnInv, CopyInv, Xxm!StopTarget
  <2> HIDE DEF S
  <2>3. /\ turns' \in Seq(Xxm!StreamedTurn) /\ SameTurns(turns, turns')
        /\ \A i \in DOMAIN turns : i \in S => turns'[i].over
    BY <1>0, <2>1, TurnsOver
  <2>4. call'.step = "idle"
    BY <2>1 DEF Xxm!NoCall, Xxm!NewCall
  <2> QED
    BY <1>0, <2>1, <2>2, <2>3, <2>4, SameTurnsKeep DEF Xxm!StopReachesTheTurn
<1>8. CASE Xxm!Continues
  <2> DEFINE s == call.session
  <2>1. /\ call.step = "continuing"
        /\ copies' = [copies EXCEPT ![s] = @ + 1]
        /\ continued' = [continued EXCEPT ![s] = copies'[s]]
        /\ call' = [call EXCEPT !.step = "posting", !.reply = "none"]
        /\ UNCHANGED <<turns, channel, events, readOnly, bound>>
    BY <1>8 DEF Xxm!Continues, Xxm!At, Xxm!Goto
  <2>2. s \in Session /\ s \in Snapshot /\ continued[s] = 0
    BY <1>k, <2>1
  <2>3. copies' \in [Session -> Nat] /\ continued' \in [Session -> Nat]
    <3>1. copies' \in [Session -> Nat]
      BY <1>0, <2>1, <2>2
    <3>2. copies'[s] \in Nat
      BY <2>2, <3>1
    <3> QED
      BY <1>0, <2>1, <2>2, <3>1, <3>2
  <2>4. \A i \in DOMAIN turns : turns[i].session # s /\ turns[i].session \in Session
    <3>1. ASSUME NEW i \in DOMAIN turns PROVE turns[i].session # s /\ turns[i].session \in Session
      <4>1. turns[i] \in Xxm!StreamedTurn
        BY <1>0
      <4>2. /\ turns[i].target = continued[turns[i].session]
            /\ turns[i].session \in Snapshot => turns[i].target # 0
        BY DEF XxmOwnInv, CopyInv
      <4> QED
        BY <2>2, <4>1, <4>2 DEF Xxm!StreamedTurn
    <3> QED
      BY <3>1
  <2>5. \A i \in DOMAIN turns : continued'[turns[i].session] = continued[turns[i].session]
    BY <1>0, <2>1, <2>4
  <2>6. call'.step \in {"posting", call.step} /\ call'.step # "continuing" /\ call'.session = s
    <3>1. CASE "step" \in DOMAIN call
      BY <2>1, <3>1
    <3> QED
      BY <2>1, <3>1 DEF XxmOwnInv, XxmTypes
  <2> QED
    BY <1>0, <1>s, <2>1, <2>2, <2>3, <2>5, <2>6 DEF XxmOwnInv, XxmTypes, CopyInv
<1>9. CASE Xxm!Posts
  <2>1. call.step = "posting" /\ UNCHANGED <<turns, continued, channel, events, readOnly, copies, bound>>
    BY <1>9 DEF Xxm!Posts, Xxm!At
  <2>2. CASE call' = Xxm!NoCall
    BY <1>0, <1>2, <2>1, <2>2 DEF Xxm!NoCall, Xxm!NewCall
  <2>3. CASE call' = [call EXCEPT !.step = "taken"] /\ ~Xxm!Refuses
    <3>1. call'.session = call.session /\ call'.step \in {"taken", "posting"}
      BY <2>1, <2>3
    <3>2. ~(call.session \in Snapshot /\ continued[call.session] = 0) /\ call.session \in Session
      BY <1>k, <2>1, <2>3 DEF Xxm!Refuses, Xxm!Target
    <3> QED
      BY <1>0, <1>s, <2>1, <3>1, <3>2, SameTurnsKeep
  <2> QED
    BY <1>9, <2>2, <2>3 DEF Xxm!Posts
<1>10. CASE Xxm!StartsTurn
  <2> DEFINE s == call.session
             S == {i \in DOMAIN turns : i = running[s] /\ turns[i].task = "streaming"}
             others == [i \in DOMAIN turns |-> IF i \in S THEN [turns[i] EXCEPT !.task = "aborted"] ELSE turns[i]]
             t == [session |-> s, target |-> Xxm!Target(s), events |-> events,
                   over |-> FALSE, task |-> "streaming"]
  <2>1. /\ turns' = Append(others, t) /\ call' = Xxm!NoCall /\ call.step = "taken"
        /\ UNCHANGED <<continued, channel, events, readOnly, copies, bound>>
    BY <1>10 DEF Xxm!StartsTurn, Xxm!At
  <2>2. s \in Session /\ (s \in Snapshot => continued[s] # 0) /\ continued[s] \in Nat
    BY <1>0, <1>k, <2>1
  <2>3. t \in Xxm!StreamedTurn /\ t.session = s /\ t.target = continued[s]
    BY <1>0, <2>2 DEF Xxm!StreamedTurn, Xxm!Target
  <2> HIDE DEF S
  <2>4. others \in Seq(Xxm!StreamedTurn) /\ SameTurns(turns, others)
    BY <1>0, TurnsAborted
  <2> HIDE DEF others, t
  <2>5. /\ turns' \in Seq(Xxm!StreamedTurn)
        /\ \A i \in DOMAIN turns' : turns'[i] = t \/ (i \in DOMAIN turns /\ SameTurn(turns[i], turns'[i]))
    <3>1. Len(others) \in Nat /\ DOMAIN others = 1 .. Len(others) /\ DOMAIN others = DOMAIN turns
      BY <2>4 DEF SameTurns
    <3>2. /\ turns' \in Seq(Xxm!StreamedTurn) /\ DOMAIN turns' = 1 .. (Len(others) + 1)
          /\ turns'[Len(others) + 1] = t /\ \A i \in 1 .. Len(others) : turns'[i] = others[i]
      <4>1. turns' = Append(others, t) /\ t \in Xxm!StreamedTurn /\ others \in Seq(Xxm!StreamedTurn)
        BY <2>1, <2>3, <2>4
      <4>2. /\ turns' \in Seq(Xxm!StreamedTurn) /\ Len(turns') = Len(others) + 1
            /\ \A i \in 1 .. Len(others) : turns'[i] = others[i]
            /\ turns'[Len(others) + 1] = t
        BY <4>1, AppendProperties
      <4>3. DOMAIN turns' = 1 .. Len(turns')
        BY <4>2, LenProperties
      <4> QED
        BY <4>2, <4>3
    <3>3. \A i \in 1 .. Len(others) : i \in DOMAIN turns /\ SameTurn(turns[i], turns'[i])
      BY <2>4, <3>1, <3>2 DEF SameTurns
    <3>4. \A i \in 1 .. (Len(others) + 1) : i \in 1 .. Len(others) \/ i = Len(others) + 1
      BY <3>1
    <3> QED
      BY <3>2, <3>3, <3>4
  <2>6. \A i \in DOMAIN turns' :
          /\ turns'[i].target = continued[turns'[i].session]
          /\ turns'[i].session \in Snapshot => turns'[i].target # 0
    BY <2>2, <2>3, <2>5 DEF XxmOwnInv, CopyInv, SameTurn
  <2>7. call'.step = "idle"
    BY <2>1 DEF Xxm!NoCall, Xxm!NewCall
  <2> QED
    BY <1>0, <1>s, <2>1, <2>5, <2>6, <2>7 DEF XxmOwnInv, XxmTypes, CopyInv
<1>11. CASE Xxm!XxmRequestFails
  <2>1. /\ Xxm!Spend("fault") /\ call' = Xxm!NoCall
        /\ UNCHANGED <<turns, continued, channel, events, readOnly>>
        /\ \/ copies' = copies
           \/ call.step = "continuing" /\ copies' = [copies EXCEPT ![call.session] = @ + 1]
    BY <1>11 DEF Xxm!XxmRequestFails, Xxm!At
  <2>2. copies' \in [Session -> Nat] /\ call'.step = "idle"
    BY <1>0, <1>k, <2>1 DEF Xxm!NoCall, Xxm!NewCall
  <2> QED
    BY <1>0, <1>2, <2>1, <2>2, SpendIs
<1>12. ASSUME NEW i \in DOMAIN turns, Xxm!TurnEnds(i) \/ Xxm!TurnAborts(i)
       PROVE  XxmOwnInv' /\ Xxm!StopReachesTheTurn
  <2>1. /\ call' = call /\ UNCHANGED <<continued, channel, events, readOnly, copies, bound>>
        /\ \/ turns' = [turns EXCEPT ![i] = [turns[i] EXCEPT !.task = "ended", !.over = TRUE]]
           \/ turns' = [turns EXCEPT ![i] = [turns[i] EXCEPT !.task = "ended"]]
    BY <1>0, <1>12 DEF Xxm!TurnEnds, Xxm!TurnAborts
  <2>2. turns[i] \in Xxm!StreamedTurn
    BY <1>0
  <2>3. PICK u \in Xxm!StreamedTurn : turns' = [turns EXCEPT ![i] = u] /\ SameTurn(turns[i], u)
    BY <2>1, <2>2, TurnMoves
  <2>4. /\ turns' \in Seq(Xxm!StreamedTurn) /\ DOMAIN turns' = DOMAIN turns
        /\ \A j \in DOMAIN turns : turns'[j] = IF j = i THEN u ELSE turns[j]
    BY <1>0, <2>3
  <2>5. SameTurns(turns, turns')
    BY <2>3, <2>4 DEF SameTurns, SameTurn
  <2> QED
    BY <1>0, <1>k, <1>s, <2>1, <2>4, <2>5, SameTurnsKeep
<1>13. ASSUME NEW i \in DOMAIN turns, Xxm!TurnFrame(i)
       PROVE  XxmOwnInv' /\ Xxm!StopReachesTheTurn
  <2>1. Xxm!Spend("frame") /\ call' = call /\ UNCHANGED <<turns, continued, channel, events, readOnly, copies>>
    BY <1>13 DEF Xxm!TurnFrame
  <2> QED
    BY <1>0, <1>2, <2>1, SpendIs
<1> QED
  BY <1>1, <1>3, <1>4, <1>5, <1>6, <1>7, <1>8, <1>9, <1>10, <1>11, <1>12, <1>13
  DEF Xxm!XueXiaoMiNext, Xxm!XxmCallStep, Xxm!XxmTaskStep

-----------------------------------------------------------------------------
(* The command line agents. *)

USE DEF Line!contact, Line!view, Line!prompts, Line!callVars, Line!cliVars

Proc == [session : Session, reader : Nat, alive : BOOLEAN, signalled : BOOLEAN]

LEMMA DeadIs == LastIsTold <=> DeadProcessIsTold
BY DEF DeadProcessIsTold, Line!DeadProcessIsTold, LastIsTold, Unread, ExitOf

LEMMA ProcessIs ==
  ASSUME ProcessTypes
  PROVE  /\ Len(process) \in Nat /\ DOMAIN process = 1 .. Len(process)
         /\ \A p \in DOMAIN process : process[p] \in Proc
         /\ process # <<>> => Len(process) \in DOMAIN process
         /\ inner \in Nat /\ (inner # 0 => inner \in DOMAIN process)
<1>1. process \in Seq(Proc) /\ inner \in {0, Len(process)}
  BY DEF ProcessTypes, Proc
<1>2. Len(process) \in Nat /\ DOMAIN process = 1 .. Len(process)
  BY <1>1
<1>3. \A p \in DOMAIN process : process[p] \in Proc
  BY <1>1
<1>4. process # <<>> => Len(process) # 0
  BY <1>1, EmptySeq
<1>5. Len(process) # 0 => Len(process) \in DOMAIN process
  BY <1>2
<1>6. inner \in Nat /\ (inner # 0 => inner \in DOMAIN process)
  <2>1. inner = 0 \/ inner = Len(process)
    BY <1>1
  <2> QED
    BY <1>2, <1>5, <2>1
<1> QED
  BY <1>2, <1>3, <1>4, <1>5, <1>6

(* What becomes of the processes there are: each stays its session's and    *)
(* its reader's.                                                            *)
SameProcess(p, q) == p.session = q.session /\ p.reader = q.reader

SameProcesses == DOMAIN process' = DOMAIN process
  /\ \A p \in DOMAIN process : SameProcess(process[p], process'[p])

LEMMA ProcessesMove ==
  ASSUME ProcessTypes, process' = [p \in DOMAIN process |-> process'[p]],
         \A p \in DOMAIN process : process'[p] \in Proc /\ SameProcess(process[p], process'[p])
  PROVE  process' \in Seq(Proc) /\ Len(process') = Len(process) /\ SameProcesses
<1>1. process \in Seq(Proc)
  BY DEF ProcessTypes, Proc
<1>2. Len(process) \in Nat /\ DOMAIN process = 1 .. Len(process)
  BY <1>1
<1>3. process' \in [1 .. Len(process) -> Proc]
  BY <1>2
<1> QED
  BY <1>2, <1>3 DEF SameProcesses

LEMMA LetGoIs ==
  ASSUME ProcessTypes, Line!LetGo
  PROVE  /\ inner' = 0 /\ process' \in Seq(Proc) /\ Len(process') = Len(process) /\ SameProcesses
         /\ \A p \in DOMAIN process : process'[p].alive = process[p].alive
<1>1. ASSUME NEW p \in DOMAIN process
      PROVE  /\ process'[p] \in Proc /\ SameProcess(process[p], process'[p])
             /\ process'[p].alive = process[p].alive
  <2>1. process[p] \in Proc
    BY ProcessIs
  <2>2. process'[p] = [process[p] EXCEPT !.signalled = TRUE] \/ process'[p] = process[p]
    BY DEF Line!LetGo
  <2> QED
    BY <2>1, <2>2 DEF Proc, SameProcess
<1>2. process' = [p \in DOMAIN process |-> process'[p]] /\ inner' = 0
  BY DEF Line!LetGo
<1> QED
  BY <1>1, <1>2, ProcessesMove

LEMMA UnreadKept ==
  ASSUME ProcessTypes, NEW t \in Told, output' = Append(output, t), inHand' = inHand
  PROVE  /\ output' \in Seq(Told)
         /\ \A p : Unread(p) => Unread(p)'
         /\ t = ExitOf(t.from) => Unread(t.from)'
<1>1. output \in Seq(Told)
  BY DEF ProcessTypes
<1>2. /\ output' \in Seq(Told) /\ Len(output') = Len(output) + 1
      /\ \A i \in 1 .. Len(output) : output'[i] = output[i]
      /\ output'[Len(output) + 1] = t
  BY <1>1, AppendProperties
<1>3. Len(output) \in Nat /\ DOMAIN output = 1 .. Len(output) /\ DOMAIN output' = 1 .. (Len(output) + 1)
  BY <1>1, <1>2, LenProperties
<1> QED
  BY <1>2, <1>3 DEF Unread

LEMMA UnreadTaken ==
  ASSUME ProcessTypes, Line!ReaderTakes
  PROVE  output' \in Seq(Told) /\ \A p : Unread(p) => Unread(p)'
<1>1. output \in Seq(Told) /\ output # <<>> /\ inHand' = Head(output) /\ output' = Tail(output)
      /\ inHand.what = "none"
  BY DEF ProcessTypes, Line!ReaderTakes, Line!Nothing
<1>2. /\ Head(output) = output[1] /\ output' \in Seq(Told) /\ Len(output') = Len(output) - 1
      /\ \A i \in 1 .. Len(output') : output'[i] = output[i + 1]
  BY <1>1, HeadTailProperties
<1>3. Len(output) \in Nat /\ DOMAIN output = 1 .. Len(output) /\ DOMAIN output' = 1 .. Len(output')
  BY <1>1, <1>2, LenProperties
<1>4. ASSUME NEW p, NEW i \in DOMAIN output, output[i] = ExitOf(p) PROVE Unread(p)'
  <2>1. CASE i = 1
    BY <1>1, <1>2, <1>4, <2>1 DEF Unread
  <2>2. CASE i # 1
    <3>1. i - 1 \in DOMAIN output' /\ output'[i - 1] = output[i]
      BY <1>2, <1>3, <2>2
    <3> QED
      BY <1>4, <3>1 DEF Unread
  <2> QED
    BY <2>1, <2>2
<1> QED
  BY <1>1, <1>2, <1>4 DEF Unread, ExitOf

(* A step that starts no process, opens nothing and greets nobody.          *)
LEMMA ProcessesKeep ==
  ASSUME TransportInv, process' \in Seq(Proc), Len(process') = Len(process), SameProcesses,
         inner' \in {0, inner}, output' \in Seq(Told), opened' \in {None, opened},
         channel' = channel, reader' \in {0, reader}, reader' # 0 => events' = channel,
         Ready', inner' = 0 \/ misnamed' = misnamed,
         call'.step = "probing" => call.step = "probing",
         reader' # 0 /\ line' = "up" =>
           /\ line = "up"
           /\ process # <<>> /\ ~process'[Len(process)].alive /\ process[Len(process)].reader = reader =>
                \/ process[Len(process)].alive /\ Unread(Len(process))'
                \/ ~process[Len(process)].alive /\ (Unread(Len(process)) => Unread(Len(process))')
  PROVE  TransportInv'
<1>1. ProcessTypes /\ OpenedInv /\ ReaderInv
  BY DEF TransportInv
<1>2. /\ process \in Seq(Proc) /\ inner \in {0, Len(process)} /\ channel \in Nat /\ opened \in Anyone
      /\ DOMAIN process' = DOMAIN process
      /\ \A p \in DOMAIN process : /\ process'[p].session = process[p].session
                                   /\ process'[p].reader = process[p].reader
  BY <1>1 DEF ProcessTypes, Proc, SameProcesses, SameProcess
<1>3. ProcessTypes'
  BY <1>2 DEF ProcessTypes, Proc, Anyone
<1>4. OpenedInv'
  <2>1. inner # 0 => inner \in DOMAIN process
    BY <1>1, ProcessIs
  <2>2. inner' # 0 /\ opened' # None /\ ~misnamed' => process'[inner'].session = opened'
    BY <1>1, <1>2, <2>1 DEF OpenedInv
  <2> QED
    BY <2>2 DEF OpenedInv
<1>5. ReaderInv'
  BY <1>1, <1>2 DEF ReaderInv
<1>6. (process = <<>>) <=> (process' = <<>>)
  BY <1>2, EmptySeq
<1>7. LastIsTold'
  <2> SUFFICES ASSUME process' # <<>>, reader' # 0, process'[Len(process')].reader = reader',
                      ~process'[Len(process')].alive, line' = "up"
               PROVE  Unread(Len(process))'
    BY DEF LastIsTold
  <2>1. process # <<>> /\ reader' = reader /\ Len(process) \in DOMAIN process
    BY <1>1, <1>6, ProcessIs
  <2>2. reader # 0 /\ line = "up" /\ process[Len(process)].reader = reader
    BY <1>2, <2>1
  <2>3. ~process[Len(process)].alive => Unread(Len(process))
    BY <2>1, <2>2 DEF TransportInv, LastIsTold
  <2> QED
    BY <2>1, <2>2, <2>3
<1> QED
  BY <1>3, <1>4, <1>5, <1>7 DEF TransportInv

(* A step that leaves the processes, what they wrote and what is connected. *)
LEMMA TransportKept ==
  ASSUME TransportInv, UNCHANGED <<process, inner, output, inHand, channel>>,
         opened' \in {None, opened}, reader' \in {0, reader}, reader' # 0 => events' = channel,
         Ready', inner' = 0 \/ misnamed' = misnamed,
         call'.step = "probing" => call.step = "probing",
         reader' # 0 /\ line' = "up" => line = "up"
  PROVE  TransportInv'
<1>1. ProcessTypes /\ process \in Seq(Proc) /\ output \in Seq(Told)
  BY DEF TransportInv, ProcessTypes, Proc
<1>2. SameProcesses /\ Unread(Len(process))' = Unread(Len(process))
  BY DEF SameProcesses, SameProcess, Unread
<1> QED
  BY <1>1, <1>2, ProcessesKeep

LEMMA CallLeft ==
  ASSUME TransportInv
  PROVE  /\ Ready
         /\ UNCHANGED <<call, argument, misnamed, reader>> => Ready'
         /\ reader # 0 => reader = channel /\ events = channel
         /\ ProcessTypes /\ channel \in Nat /\ opened \in Anyone
         /\ process \in Seq(Proc) /\ output \in Seq(Told)
BY DEF TransportInv, OpenedInv, Ready, ReaderInv, ProcessTypes, Proc

LEMMA IdleIs ==
  ASSUME call' = Line!NoCall
  PROVE  call'.step = "idle" /\ call'.prompt = 0 /\ Ready'
BY DEF Line!NoCall, Line!NewCall, Ready

(* The calls.                                                               *)
LEMMA LineDisconnects ==
  ASSUME TransportInv, Line!CliConnect \/ Line!CliDisconnect
  PROVE  TransportInv'
<1>1. /\ reader' = 0 /\ output' = <<>> /\ UNCHANGED <<process, inner, opened, misnamed>>
      /\ channel' \in {channel, channel + 1} /\ call.step = "idle"
      /\ (call' = call \/ (channel' = channel + 1 /\ call'.step = "probing"))
  BY DEF Line!CliConnect, Line!CliDisconnect, Line!CliDisconnects, Line!BeginConnect, Line!CallDisconnect,
         Line!NewCall, Line!Idle
<1>2. ProcessTypes /\ ProcessTypes'
  BY <1>1 DEF TransportInv, ProcessTypes
<1>3. OpenedInv'
  BY <1>1 DEF TransportInv, OpenedInv, Ready
<1>4. \A p \in DOMAIN process : process[p].reader \in Nat /\ process[p].reader <= channel
  BY <1>2, ProcessIs DEF TransportInv, ReaderInv, Proc
<1>5. ReaderInv'
  <2>1. channel \in Nat
    BY <1>2 DEF ProcessTypes
  <2> QED
    BY <1>1, <1>4, <2>1 DEF ReaderInv
<1> QED
  BY <1>1, <1>2, <1>3, <1>5 DEF TransportInv, LastIsTold

LEMMA LineProbes ==
  ASSUME TransportInv, Line!CliProbed
  PROVE  TransportInv'
<1>1. /\ call.step = "probing" /\ call' = Line!NoCall
      /\ UNCHANGED <<channel, process, inner, output, inHand, argument, misnamed, opened>>
      /\ reader' \in {reader, channel} /\ (reader' # reader => events' = channel)
  BY DEF Line!CliProbed, Line!At, Line!Greets
<1>2. reader = 0 /\ \A p \in DOMAIN process : process[p].reader # channel
  <2>1. ASSUME NEW p \in DOMAIN process PROVE process[p].reader \in Nat /\ process[p].reader < channel
    BY <1>1, ProcessIs DEF TransportInv, ReaderInv, Proc
  <2> QED
    BY <1>1, <2>1 DEF TransportInv, ReaderInv
<1>3. ProcessTypes' /\ OpenedInv' /\ ReaderInv'
  BY <1>1, <1>2, IdleIs DEF TransportInv, ProcessTypes, OpenedInv, ReaderInv
<1>4. LastIsTold'
  <2>1. process # <<>> => Len(process) \in DOMAIN process
    BY ProcessIs DEF TransportInv
  <2> QED
    BY <1>1, <1>2, <2>1 DEF LastIsTold
<1> QED
  BY <1>3, <1>4 DEF TransportInv

LEMMA LineCallBegins ==
  ASSUME TransportInv, Line!CliCallBegins
  PROVE  TransportInv'
<1>1. /\ UNCHANGED <<process, inner, output, inHand, argument, misnamed, channel, opened, reader, events, line>>
      /\ call'.step \in {"failing", "naming", "sending"}
      /\ call'.step = "sending" /\ call'.prompt # 0 => call'.session \in Session
  <2>1. CASE \E op \in {"create", "resume"}, s \in Session : Line!Opens(op, s)
    <3>1. PICK op \in {"create", "resume"}, s \in Session : Line!Opens(op, s)
      BY <2>1
    <3>2. call' = Line!NewCall(op, s, 0, IF kind = "codex" THEN "failing" ELSE "naming")
      BY <3>1 DEF Line!Opens, Line!Begin
    <3>3. call'.step \in {"failing", "naming"}
      BY <3>2 DEF Line!NewCall
    <3> QED
      BY <3>1, <3>3 DEF Line!Opens, Line!Begin
  <2>2. CASE /\ UNCHANGED Line!cliVars
             /\ \/ \E op \in {"interrupt", "respond"} : Line!Begin(op, None, "sending")
                \/ \E s \in Session : Line!BeginSubmit(s, "sending")
    BY <2>2 DEF Line!Begin, Line!BeginSubmit, Line!NewCall
  <2> QED
    BY <2>1, <2>2 DEF Line!CliCallBegins
<1>2. Ready'
  BY <1>1 DEF Ready
<1> QED
  BY <1>1, <1>2, CallLeft, TransportKept

(* The id the next process is started with is read back.                    *)
LEMMA LineNames ==
  ASSUME TransportInv, NamedInv, Line!Names
  PROVE  TransportInv'
<1>1. /\ call.step = "naming"
      /\ call' = [call EXCEPT !.step = IF reader = 0 THEN "failing" ELSE "stopping", !.reply = "none"]
      /\ argument' = Line!StartsWith(call.op, call.session)
      /\ UNCHANGED <<channel, line, events, reader, output, inHand, opened>>
  BY DEF Line!Names, Line!At, Line!Goto
<1>2. /\ call.session \in Session /\ call.op \in {"create", "resume"}
      /\ call.op = "create" => live \in Session
  BY <1>1 DEF NamedInv
<1>3. CASE reader = 0
  <2>1. UNCHANGED <<process, inner, misnamed>>
    BY <1>3 DEF Line!Names
  <2>2. Ready' /\ call'.step # "probing"
    <3>1. call'.step \in {"failing", "naming"}
      BY <1>1, <1>3
    <3> QED
      BY <3>1 DEF Ready
  <2> QED
    BY <1>1, <2>1, <2>2, CallLeft, TransportKept
<1>4. CASE reader # 0
  <2>1. Line!LetGo /\ misnamed' = (call.op = "create" /\ live # call.session)
    BY <1>4 DEF Line!Names
  <2>2. /\ inner' = 0 /\ process' \in Seq(Proc) /\ Len(process') = Len(process) /\ SameProcesses
        /\ \A p \in DOMAIN process : process'[p].alive = process[p].alive
    BY <2>1, LetGoIs, CallLeft
  <2>3. Unread(Len(process))' = Unread(Len(process)) /\ (process # <<>> => Len(process) \in DOMAIN process)
    BY <1>1, <2>2, ProcessIs, CallLeft DEF Unread
  <2>4. call'.step \in {"stopping", "naming"} /\ call'.session = call.session
    BY <1>1, <1>4
  <2>5. argument' \in Session /\ (misnamed' \/ argument' = call.session)
    BY <1>1, <1>2, <2>1 DEF Line!StartsWith
  <2>6. Ready'
    BY <1>1, <1>2, <1>4, <2>4, <2>5 DEF Ready
  <2> QED
    BY <1>1, <1>4, <2>2, <2>3, <2>4, <2>6, CallLeft, ProcessesKeep
<1> QED
  BY <1>3, <1>4

LEMMA LineSpawns ==
  ASSUME TransportInv, Line!Spawns
  PROVE  TransportInv'
<1> DEFINE p == [session |-> argument, reader |-> reader, alive |-> TRUE, signalled |-> FALSE]
<1>1. /\ call.step = "spawning" /\ call' = Line!NoCall /\ process' = Append(process, p)
      /\ inner' = Len(process') /\ opened' = call.session
      /\ UNCHANGED <<channel, line, events, reader, output, inHand, argument, misnamed>>
  BY DEF Line!Spawns, Line!At, Line!ReturnSession
<1>2. /\ argument \in Session /\ call.session \in Session /\ reader # 0
      /\ misnamed \/ argument = call.session
      /\ reader = channel /\ events = channel /\ channel \in Nat
      /\ process \in Seq(Proc) /\ output \in Seq(Told)
  BY <1>1, CallLeft DEF Ready
<1>3. p \in Proc /\ (misnamed \/ p.session = call.session) /\ p.reader = channel /\ p.alive
  BY <1>2 DEF Proc
<1> HIDE DEF p
<1>4. /\ process' \in Seq(Proc) /\ Len(process') = Len(process) + 1 /\ process' # <<>>
      /\ process'[Len(process) + 1] = p /\ \A i \in 1 .. Len(process) : process'[i] = process[i]
  BY <1>1, <1>2, <1>3, AppendProperties
<1>5. /\ Len(process) \in Nat /\ DOMAIN process = 1 .. Len(process)
      /\ DOMAIN process' = 1 .. (Len(process) + 1)
  BY <1>2, <1>4, LenProperties
<1>6. process'[Len(process')] = p /\ inner' = Len(process')
  BY <1>1, <1>4
<1>7. ProcessTypes'
  BY <1>1, <1>2, <1>4 DEF ProcessTypes, Proc, Anyone
<1>8. OpenedInv'
  BY <1>1, <1>3, <1>6, IdleIs DEF OpenedInv
<1>9. ReaderInv'
  <2>1. ASSUME NEW i \in DOMAIN process' PROVE process'[i].reader <= channel
    <3>1. i \in 1 .. Len(process) \/ i = Len(process) + 1
      BY <1>5
    <3>2. \A j \in 1 .. Len(process) : process[j].reader <= channel
      BY <1>5 DEF TransportInv, ReaderInv
    <3> QED
      BY <1>2, <1>3, <1>4, <3>1, <3>2
  <2> QED
    BY <1>1, <1>2, <2>1, IdleIs DEF ReaderInv
<1>10. LastIsTold'
  BY <1>3, <1>6 DEF LastIsTold
<1> QED
  BY <1>7, <1>8, <1>9, <1>10 DEF TransportInv

(* The transport and its reader.                                            *)
LEMMA LineStops ==
  ASSUME TransportInv, Line!StopRuns
  PROVE  TransportInv'
<1>1. Line!LetGo /\ UNCHANGED <<events, reader, output, inHand, argument, misnamed, opened, call, channel, line>>
  BY DEF Line!StopRuns
<1>2. /\ inner' = 0 /\ process' \in Seq(Proc) /\ Len(process') = Len(process) /\ SameProcesses
      /\ \A p \in DOMAIN process : process'[p].alive = process[p].alive
  BY <1>1, LetGoIs, CallLeft
<1>3. Unread(Len(process))' = Unread(Len(process)) /\ (process # <<>> => Len(process) \in DOMAIN process)
  BY <1>1, <1>2, ProcessIs, CallLeft DEF Unread
<1> QED
  BY <1>1, <1>2, <1>3, CallLeft, ProcessesKeep

LEMMA LineExits ==
  ASSUME TransportInv, NEW p \in DOMAIN process, Line!ProcessExits(p)
  PROVE  TransportInv'
<1>1. /\ process' = [process EXCEPT ![p].alive = FALSE]
      /\ output' = IF process[p].reader = reader
                   THEN Append(output, [from |-> p, what |-> "exit"]) ELSE output
      /\ UNCHANGED <<events, reader, inner, inHand, argument, misnamed, opened, call, channel, line>>
  BY DEF Line!ProcessExits
<1>2. /\ ProcessTypes /\ output \in Seq(Told) /\ process \in Seq(Proc)
      /\ process[p] \in Proc /\ p \in Nat /\ Len(process) \in Nat
      /\ process # <<>> => Len(process) \in DOMAIN process
  BY ProcessIs, CallLeft
<1> DEFINE q == [process[p] EXCEPT !.alive = FALSE]
<1>3. process' = [process EXCEPT ![p] = q]
  BY <1>1
<1>4. q \in Proc /\ SameProcess(process[p], q)
  BY <1>2 DEF Proc, SameProcess
<1> HIDE DEF q
<1>5. /\ process' \in Seq(Proc) /\ Len(process') = Len(process) /\ DOMAIN process' = DOMAIN process
      /\ \A i \in DOMAIN process : process'[i] = IF i = p THEN q ELSE process[i]
  BY <1>2, <1>3, <1>4, ExceptSeq, LenProperties
<1>6. SameProcesses
  BY <1>4, <1>5 DEF SameProcesses, SameProcess
<1>7. /\ output' \in Seq(Told)
      /\ \A i : Unread(i) => Unread(i)'
      /\ process[p].reader = reader => Unread(p)'
  <2>1. CASE process[p].reader = reader
    <3>1. [from |-> p, what |-> "exit"] \in Told /\ [from |-> p, what |-> "exit"] = ExitOf(p)
      BY <1>2 DEF Told, ExitOf
    <3>2. PICK t \in Told : t = ExitOf(p) /\ t.from = p /\ output' = Append(output, t)
      BY <1>1, <2>1, <3>1
    <3> QED
      BY <1>1, <1>2, <2>1, <3>2, UnreadKept
  <2>2. CASE process[p].reader # reader
    BY <1>1, <1>2, <2>2 DEF Unread
  <2> QED
    BY <2>1, <2>2
<1>8. Unread(Len(process)) => Unread(Len(process))'
  BY <1>5, <1>7 DEF Unread
<1>9. p = Len(process) /\ process[p].reader = reader => Unread(Len(process))'
  BY <1>5, <1>7 DEF Unread
<1>10. process # <<>> /\ ~process'[Len(process)].alive =>
         Len(process) = p \/ ~process[Len(process)].alive
  BY <1>2, <1>5
<1> QED
  BY <1>1, <1>5, <1>6, <1>7, <1>8, <1>9, <1>10, CallLeft, ProcessesKeep

LEMMA LineWrites ==
  ASSUME TransportInv, NEW p \in DOMAIN process, Line!ProcessWrites(p)
  PROVE  TransportInv'
<1>1. UNCHANGED <<process, events, reader, inner, inHand, argument, misnamed, opened, call, channel, line>>
  BY DEF Line!ProcessWrites
<1>2. p \in Nat /\ ProcessTypes /\ process \in Seq(Proc)
  BY ProcessIs, CallLeft
<1>3. PICK t \in Told : output' = Append(output, t)
  <2>1. PICK what \in {"line", "question", "system"} : output' = Append(output, [from |-> p, what |-> what])
    BY DEF Line!ProcessWrites
  <2>2. [from |-> p, what |-> what] \in Told
    BY <1>2 DEF Told
  <2> QED
    BY <2>1, <2>2
<1>4. output' \in Seq(Told) /\ \A i : Unread(i) => Unread(i)'
  BY <1>1, <1>2, <1>3, UnreadKept
<1>5. SameProcesses /\ (Unread(Len(process)) => Unread(Len(process))')
  BY <1>1, <1>4 DEF SameProcesses, SameProcess, Unread
<1> QED
  BY <1>1, <1>2, <1>4, <1>5, CallLeft, ProcessesKeep

LEMMA LineReads ==
  ASSUME TransportInv, Line!ReaderTakes \/ Line!ReaderHandles \/ Line!ReaderEnds
  PROVE  TransportInv'
<1>0. ProcessTypes /\ process \in Seq(Proc) /\ output \in Seq(Told)
  BY CallLeft
<1>1. CASE Line!ReaderTakes
  <2>1. UNCHANGED <<process, events, reader, inner, argument, misnamed, opened, call, channel, line>>
    BY <1>1 DEF Line!ReaderTakes
  <2>2. output' \in Seq(Told) /\ \A i : Unread(i) => Unread(i)'
    BY <1>0, <1>1, UnreadTaken
  <2>3. SameProcesses /\ (Unread(Len(process)) => Unread(Len(process))')
    BY <2>1, <2>2 DEF SameProcesses, SameProcess, Unread
  <2> QED
    BY <1>0, <2>1, <2>2, <2>3, CallLeft, ProcessesKeep
<1>2. CASE Line!ReaderHandles
  <2>1. UNCHANGED <<process, output, events, reader, inner, argument, misnamed, opened, call, channel>>
    BY <1>2 DEF Line!ReaderHandles, Line!HandlesLine, Line!HandlesExit, Line!Loses
  <2>2. SameProcesses
    BY <2>1 DEF SameProcesses, SameProcess
  <2>3. line' = "up" => line = "up"
    BY <1>2 DEF Line!ReaderHandles, Line!HandlesLine, Line!HandlesExit, Line!Loses
  <2>4. ASSUME inHand # ExitOf(Len(process)) PROVE Unread(Len(process)) => Unread(Len(process))'
    BY <2>1, <2>4 DEF Unread
  <2>5. ASSUME inHand = ExitOf(Len(process)), reader # 0, line' = "up", process # <<>>
        PROVE  process[Len(process)].alive
    <3>1. inHand.what = "exit"
      BY <2>5 DEF ExitOf
    <3>2. Line!HandlesExit
      BY <1>2, <3>1 DEF Line!ReaderHandles, Line!HandlesLine
    <3>3. events = channel /\ line = "up"
      BY <2>3, <2>5, CallLeft
    <3>4. Line!Running
      BY <2>5, <3>2, <3>3 DEF Line!HandlesExit, Line!TellsExit, Line!Loses, Line!Newest
    <3> QED
      BY <3>4 DEF Line!Running, TransportInv, ProcessTypes
  <2> QED
    BY <1>0, <2>1, <2>2, <2>3, <2>4, <2>5, CallLeft, ProcessesKeep
<1>3. CASE Line!ReaderEnds
  <2>1. UNCHANGED <<process, output, events, reader, inner, argument, misnamed, opened, call, channel, line>>
    BY <1>3 DEF Line!ReaderEnds
  <2>2. SameProcesses
    BY <2>1 DEF SameProcesses, SameProcess
  <2>3. process # <<>> /\ process[Len(process)].reader = reader => inHand # ExitOf(Len(process))
    BY <1>3 DEF Line!ReaderEnds, ExitOf
  <2>4. process # <<>> /\ process[Len(process)].reader = reader =>
          (Unread(Len(process)) => Unread(Len(process))')
    BY <2>1, <2>3 DEF Unread
  <2> QED
    BY <1>0, <2>1, <2>2, <2>4, CallLeft, ProcessesKeep
<1> QED
  BY <1>1, <1>2, <1>3

LEMMA TransportStep ==
  ASSUME TransportInv, NamedInv, Line!CliNext
  PROVE  TransportInv'
<1>1. CASE Line!CliClearSessionScope
  <2>1. /\ UNCHANGED <<process, inner, output, inHand, argument, misnamed, channel, reader, events, line, call>>
        /\ opened' = None /\ call.step = "idle"
    BY <1>1 DEF Line!CliClearSessionScope, Line!Idle
  <2> QED
    BY <2>1, CallLeft, TransportKept
<1>2. CASE Line!OldProcessIsOver
  <2>1. /\ UNCHANGED <<process, inner, output, inHand, channel, reader, events, line, opened, argument, misnamed>>
        /\ call.step = "stopping" /\ call' = [call EXCEPT !.step = "spawning", !.reply = "none"]
    BY <1>2 DEF Line!OldProcessIsOver, Line!Goto, Line!At
  <2>2. call'.session = call.session /\ call'.step \in {"stopping", "spawning"}
    BY <2>1
  <2>3. Ready'
    BY <2>1, <2>2, CallLeft DEF Ready
  <2> QED
    BY <2>1, <2>2, <2>3, CallLeft, TransportKept
<1>3. CASE Line!Sends \/ Line!SpawnFails
  <2>1. /\ UNCHANGED <<process, inner, output, inHand, channel, reader, events, line, opened, misnamed>>
        /\ call' = Line!NoCall
    BY <1>3 DEF Line!Sends, Line!SpawnFails
  <2> QED
    BY <2>1, IdleIs, CallLeft, TransportKept
<1> QED
  BY <1>1, <1>2, <1>3, LineDisconnects, LineProbes, LineCallBegins, LineNames, LineSpawns, LineStops,
     LineExits, LineWrites, LineReads
  DEF Line!CliNext, Line!CliCallStep

(* Only processes write, and the reader takes what they wrote.              *)
LEMMA WrittenStep ==
  ASSUME ProcessTypes, WrittenInv, Line!CliNext
  PROVE  WrittenInv'
<1> DEFINE Moves ==
      /\ DOMAIN process \subseteq DOMAIN process'
      /\ inHand' \in {inHand, Line!Nothing} \/ \E i \in DOMAIN output : inHand' = output[i]
      /\ \A i \in DOMAIN output' :
           (\E j \in DOMAIN output : output'[i] = output[j]) \/ output'[i].from \in DOMAIN process'
<1>1. SUFFICES Moves
  BY DEF WrittenInv, Line!Nothing
<1>2. ASSUME Line!LetGo PROVE DOMAIN process' = DOMAIN process
  BY <1>2 DEF Line!LetGo
<1>3. CASE Line!CliConnect \/ Line!CliDisconnect
  BY <1>3 DEF Line!CliConnect, Line!CliDisconnect, Line!CliDisconnects
<1>4. ASSUME NEW p \in DOMAIN process, Line!ProcessExits(p) \/ Line!ProcessWrites(p)
      PROVE  Moves
  <2>1. /\ DOMAIN process' = DOMAIN process /\ inHand' = inHand
        /\ output' = output \/ \E what : output' = Append(output, [from |-> p, what |-> what])
    BY <1>4 DEF Line!ProcessExits, Line!ProcessWrites
  <2>2. ASSUME NEW what, output' = Append(output, [from |-> p, what |-> what])
        PROVE  \A i \in DOMAIN output' :
                 (\E j \in DOMAIN output : output'[i] = output[j]) \/ output'[i].from \in DOMAIN process'
    <3> DEFINE r == [from |-> p, what |-> what]
    <3>1. r.from = p
      OBVIOUS
    <3> HIDE DEF r
    <3>2. output \in Seq(Told \cup {r}) /\ r \in Told \cup {r}
      BY DEF ProcessTypes
    <3>3. output' = Append(output, r)
      BY <2>2 DEF r
    <3>4. \A i \in DOMAIN output' : (i \in DOMAIN output /\ output'[i] = output[i]) \/ output'[i] = r
      BY <3>2, <3>3
    <3> QED
      BY <2>1, <3>1, <3>4
  <2> QED
    BY <2>1, <2>2
<1>5. CASE \/ Line!CliClearSessionScope \/ Line!OldProcessIsOver \/ Line!SpawnFails \/ Line!Sends
           \/ Line!ReaderEnds \/ Line!ReaderHandles \/ Line!CliProbed \/ Line!CliCallBegins
  <2>1. UNCHANGED <<process, output>> /\ inHand' \in {inHand, Line!Nothing}
    BY <1>5 DEF Line!CliClearSessionScope, Line!OldProcessIsOver, Line!SpawnFails, Line!Sends,
                Line!ReaderEnds, Line!ReaderHandles, Line!CliProbed, Line!CliCallBegins, Line!Opens
  <2> QED
    BY <2>1
<1>6. CASE Line!Names \/ Line!StopRuns
  <2>1. UNCHANGED <<output, inHand>> /\ (process' = process \/ Line!LetGo)
    BY <1>6 DEF Line!Names, Line!StopRuns
  <2> QED
    BY <1>2, <2>1
<1>7. CASE Line!Spawns
  <2>1. UNCHANGED <<output, inHand>> /\ \E p : process' = Append(process, p)
    BY <1>7 DEF Line!Spawns
  <2>2. DOMAIN process \subseteq DOMAIN process'
    BY <2>1 DEF ProcessTypes
  <2> QED
    BY <2>1, <2>2
<1>8. CASE Line!ReaderTakes
  <2>1. /\ process' = process /\ output # <<>> /\ inHand' = Head(output) /\ output' = Tail(output)
    BY <1>8 DEF Line!ReaderTakes
  <2>2. output \in Seq(Told)
    BY DEF ProcessTypes
  <2>3. 1 \in DOMAIN output /\ Head(output) = output[1]
    BY <2>1, <2>2
  <2>4. \A i \in DOMAIN Tail(output) : i + 1 \in DOMAIN output /\ Tail(output)[i] = output[i + 1]
    BY <2>1, <2>2
  <2> QED
    BY <2>1, <2>3, <2>4
<1> QED
  BY <1>3, <1>4, <1>5, <1>6, <1>7, <1>8 DEF Line!CliNext, Line!CliCallStep

(* The session a line names is one an agent has.                            *)
LEMMA LineNamesSession ==
  ASSUME ProcessTypes, WrittenInv, Line!HandlesLine
  PROVE  process[inHand.from].session \in Session
<1>1. inHand # Line!Nothing
  BY DEF Line!HandlesLine, Line!Nothing
<1>2. inHand.from \in DOMAIN process
  BY <1>1 DEF WrittenInv
<1> QED
  BY <1>2, ProcessIs DEF Proc

LEMMA NamedStep ==
  ASSUME ProcessTypes, WrittenInv, NamedInv, Line!CliNext
  PROVE  NamedInv'
<1>1. CASE \E op \in {"create", "resume"}, s \in Session : Line!Opens(op, s)
  <2>1. PICK op \in {"create", "resume"}, s \in Session : Line!Opens(op, s)
    BY <1>1
  <2>2. /\ call' = Line!NewCall(op, s, 0, IF kind = "codex" THEN "failing" ELSE "naming")
        /\ live' = IF op = "create" /\ kind # "codex" THEN s ELSE live
    BY <2>1 DEF Line!Opens, Line!Begin
  <2>3. /\ call'.session = s /\ call'.op = op
        /\ call'.step = IF kind = "codex" THEN "failing" ELSE "naming"
    BY <2>2 DEF Line!NewCall
  <2> QED
    BY <2>2, <2>3 DEF NamedInv
<1>2. CASE Line!ReaderHandles
  <2>1. call' = call /\ (live' = live \/ (Line!HandlesLine /\ live' = process[inHand.from].session))
    BY <1>2 DEF Line!ReaderHandles, Line!HandlesLine, Line!HandlesExit
  <2> QED
    BY <2>1, LineNamesSession DEF NamedInv
<1>3. CASE UNCHANGED <<call, live>>
  BY <1>3 DEF NamedInv
<1>4. CASE call'.step # "naming"
  BY <1>4 DEF NamedInv
<1>5. CASE Line!CliConnect \/ Line!CliDisconnect
  <2>1. call'.step # "naming"
    BY <1>5 DEF Line!CliConnect, Line!CliDisconnect, Line!BeginConnect, Line!CallDisconnect, Line!NewCall,
                Line!Idle
  <2> QED
    BY <1>4, <2>1
<1>6. CASE /\ UNCHANGED Line!cliVars
           /\ \/ \E op \in {"interrupt", "respond"} : Line!Begin(op, None, "sending")
              \/ \E s \in Session : Line!BeginSubmit(s, "sending")
  BY <1>4, <1>6 DEF Line!Begin, Line!BeginSubmit, Line!NewCall
<1>7. CASE Line!CliProbed \/ Line!Spawns \/ Line!Sends \/ Line!SpawnFails
  <2>1. call' = Line!NoCall
    BY <1>7 DEF Line!CliProbed, Line!Spawns, Line!Sends, Line!SpawnFails, Line!ReturnSession
  <2> QED
    BY <1>4, <2>1, IdleIs
<1>8. CASE Line!Names \/ Line!OldProcessIsOver
  <2>1. \E step \in {"failing", "stopping", "spawning"} : call' = [call EXCEPT !.step = step, !.reply = "none"]
    BY <1>8 DEF Line!Names, Line!OldProcessIsOver, Line!Goto
  <2>2. /\ call'.step = "naming" => call.step = "naming"
        /\ call'.session = call.session /\ call'.op = call.op
    BY <2>1
  <2>3. live' = live
    BY <1>8 DEF Line!Names, Line!OldProcessIsOver
  <2> QED
    BY <2>2, <2>3 DEF NamedInv
<1>9. CASE \/ Line!CliClearSessionScope \/ Line!StopRuns \/ Line!ReaderTakes \/ Line!ReaderEnds
           \/ \E p \in DOMAIN process : Line!ProcessExits(p) \/ Line!ProcessWrites(p)
  <2>1. UNCHANGED <<call, live>>
    BY <1>9 DEF Line!CliClearSessionScope, Line!StopRuns, Line!ReaderTakes, Line!ReaderEnds,
                Line!ProcessExits, Line!ProcessWrites
  <2> QED
    BY <1>3, <2>1
<1> QED
  BY <1>1, <1>2, <1>5, <1>6, <1>7, <1>8, <1>9 DEF Line!CliNext, Line!CliCallStep, Line!CliCallBegins

LEMMA LineOwnStep ==
  ASSUME LineOwnInv, Line!CliNext
  PROVE  LineOwnInv'
<1>1. TransportInv /\ ProcessTypes /\ WrittenInv /\ NamedInv
  BY DEF LineOwnInv, TransportInv
<1> QED
  BY <1>1, TransportStep, WrittenStep, NamedStep DEF LineOwnInv

-----------------------------------------------------------------------------
LEMMA CodeShows ==
  ASSUME CodeOwnInv
  PROVE  ReplyShownOnce
<1>1. CASE missed
  BY <1>1 DEF ReplyShownOnce, Code!ReplyShownOnce
<1>2. CASE ~missed
  <2>1. bubble \in Seq(1 .. ReplyLength) /\ Len(bubble) <= turn.said /\ \A i \in 1 .. Len(bubble) : bubble[i] = i
    BY <1>2 DEF CodeOwnInv, ChatInv
  <2>2. bubble = [i \in 1 .. Len(bubble) |-> bubble[i]]
    BY <2>1, LenProperties
  <2>3. bubble = [i \in 1 .. Len(bubble) |-> i]
    BY <2>1, <2>2
  <2> QED
    BY <2>1, <2>3 DEF ReplyShownOnce, Code!ReplyShownOnce
<1> QED
  BY <1>1, <1>2

LEMMA OwnInvInit == Init => OwnInv
<1> SUFFICES ASSUME Init PROVE OwnInv
  OBVIOUS
<1>1. call = NoCall /\ call.session = None /\ call.step = "idle" /\ call.prompt = 0 /\ channel = 0
  BY DEF Init, CallsInit, NoCall, NewCall
<1>2. CodeOwnInv
  <2>1. /\ shared = Code!Cleared /\ turn = [session |-> None, said |-> 0, told |-> 0]
        /\ bubble = <<>> /\ missed = FALSE
        /\ questions = {} /\ asked = Code!Nobody /\ answers = Code!Nobody
    BY DEF Init, Code!CodeInit, Code!NoTurn
  <2>2. /\ shared \in [active : Anyone, permissions : [Code!Request -> Anyone],
                       known : BOOLEAN, text : 0 .. ReplyLength]
        /\ shared.permissions = [r \in Code!Request |-> None] /\ shared.text = 0
        /\ turn \in Code!Turn /\ turn.said = 0 /\ turn.told = 0
    BY <2>1, BackendAssumption DEF Code!Cleared, Code!Nobody, Anyone, Code!Turn
  <2>3. asked = [r \in Code!Request |-> None] /\ answers = [r \in Code!Request |-> None]
    BY <2>1 DEF Code!Nobody
  <2>4. bubble \in Seq(1 .. ReplyLength) /\ Len(bubble) = 0
    BY <2>1, EmptySeq
  <2>5. ChatInv
    <3>1. missed \in BOOLEAN /\ Len(bubble) <= turn.said
          /\ \A i \in 1 .. Len(bubble) : FALSE
      <4>1. \A i \in 1 .. 0 : FALSE
        OBVIOUS
      <4>2. 0 <= turn.said
        BY <2>2
      <4> QED
        BY <2>1, <2>4, <4>1, <4>2, Zenon
    <3> QED
      BY <2>4, <3>1 DEF ChatInv
  <2> QED
    BY <1>1, <2>1, <2>2, <2>3, <2>5
    DEF CodeOwnInv, CodeTypes, AskerInv, ToldInv, AnswerGoesToAsker, Code!AnswerGoesToAsker, Anyone
<1>3. kind = "xuexiaomi" => XxmOwnInv
  <2>1. /\ events = 0 /\ readOnly = {} /\ continued = [s \in Session |-> 0]
        /\ copies = [s \in Session |-> 0] /\ turns = <<>>
    BY DEF Init, Xxm!XxmInit
  <2>2. kind \in DOMAIN Bounds /\ bound \in [{"call", "submit", "frame", "fault"} -> Nat]
    BY BackendAssumption DEF Init
  <2> QED
    BY <1>1, <2>1, <2>2 DEF XxmOwnInv, XxmTypes, CopyInv
<1>4. LineOwnInv
  <2>1. /\ reader = 0 /\ process = <<>> /\ inner = 0 /\ output = <<>> /\ opened = None
        /\ inHand = Line!Nothing
    BY DEF Init, Line!CliInit
  <2> QED
    BY <1>1, <2>1
    DEF LineOwnInv, TransportInv, ProcessTypes, OpenedInv, Ready, ReaderInv, LastIsTold, Anyone, WrittenInv, NamedInv
<1>5. turns = <<>> /\ process = <<>>
  BY DEF Init, Xxm!XxmInit, Line!CliInit
<1>6. OneCopyPerSession
  BY <1>5 DEF OneCopyPerSession, Xxm!OneCopyPerSession
<1>7. ReplyShownOnce
  BY <1>2, CodeShows
<1>8. AnswerGoesToAsker
  BY <1>2 DEF CodeOwnInv, AskerInv
<1> QED
  BY <1>2, <1>3, <1>4, <1>5, <1>6, <1>7, <1>8 DEF OwnInv

(* The parts that are not an adapter's stay as they are.                    *)
LEMMA OthersStay ==
  ASSUME OwnInv, kind' = kind
  PROVE  /\ kind # "opencode" /\ UNCHANGED codeVars => (AnswerGoesToAsker /\ ReplyShownOnce)'
         /\ kind # "xuexiaomi" /\ UNCHANGED turns => OneCopyPerSession'
         /\ kind \notin Local /\ UNCHANGED process => process' = <<>>
BY DEF OwnInv, codeVars, AnswerGoesToAsker, Code!AnswerGoesToAsker, ReplyShownOnce, Code!ReplyShownOnce,
       OneCopyPerSession, Xxm!OneCopyPerSession

LEMMA LineKeepsKind == Line!CliNext => kind' = kind
BY DEF Line!CliNext, Line!CliConnect, Line!CliDisconnect, Line!CliDisconnects,
       Line!CliClearSessionScope, Line!CliCallBegins, Line!Opens, Line!CliCallStep, Line!CliProbed,
       Line!Names, Line!OldProcessIsOver, Line!Spawns, Line!Sends, Line!SpawnFails, Line!StopRuns,
       Line!ReaderTakes, Line!ReaderHandles, Line!ReaderEnds, Line!ProcessExits, Line!ProcessWrites

LEMMA OwnInvNext == OwnInv /\ [Next]_vars => OwnInv'
<1> SUFFICES ASSUME OwnInv, [Next]_vars PROVE OwnInv'
  OBVIOUS
<1> USE DEF Local
<1>1. CASE kind = "opencode" /\ Code!OpenCodeNext /\ UNCHANGED <<kind, turns, process>>
  <2>1. CodeOwnInv'
    BY <1>1, CodeOwnStep DEF OwnInv
  <2> QED
    BY <1>1, <2>1, OthersStay DEF OwnInv
<1>2. CASE kind = "xuexiaomi" /\ Xxm!XueXiaoMiNext /\ UNCHANGED <<kind, codeVars, process>>
  <2>1. XxmOwnInv'
    BY <1>2, XxmOwnStep DEF OwnInv
  <2> QED
    BY <1>2, <2>1, OthersStay DEF OwnInv
<1>3. CASE kind \in Local /\ Line!CliNext /\ UNCHANGED <<codeVars, turns>>
  <2>1. LineOwnInv' /\ kind' = kind
    BY <1>3, LineOwnStep, LineKeepsKind DEF OwnInv
  <2> QED
    BY <1>3, <2>1, OthersStay DEF OwnInv
<1>4. CASE kind \in {"openclaw", "hermes"} /\ UNCHANGED <<kind, codeVars, turns, process>>
  BY <1>4, OthersStay DEF OwnInv
<1>5. CASE UNCHANGED vars
  <2>1. CodeOwnInv => CodeOwnInv'
    BY <1>5 DEF vars, codeVars, CodeOwnInv, CodeTypes, AskerInv, ToldInv, ChatInv, AnswerGoesToAsker,
                Code!AnswerGoesToAsker, callVars
  <2>2. XxmOwnInv => XxmOwnInv'
    BY <1>5 DEF vars, callVars, contact, XxmOwnInv, XxmTypes, CopyInv, Xxm!Refuses, Xxm!Target
  <2>3. LineOwnInv => LineOwnInv'
    BY <1>5 DEF vars, callVars, contact, lineVars, LineOwnInv, TransportInv, ProcessTypes, OpenedInv, Ready,
                ReaderInv, LastIsTold, Unread, WrittenInv, NamedInv
  <2>4. UNCHANGED <<kind, codeVars, turns, process>>
    BY <1>5 DEF vars, lineVars
  <2> QED
    BY <2>1, <2>2, <2>3, <2>4, OthersStay DEF OwnInv
<1> QED
  BY <1>1, <1>2, <1>3, <1>4, <1>5 DEF Next, lineVars

LEMMA OwnInvHolds == Spec => []OwnInv
BY OwnInvInit, OwnInvNext, PTL DEF Spec

LEMMA OwnInvShows ==
  OwnInv => AnswerGoesToAsker /\ ReplyShownOnce /\ OneCopyPerSession /\ DeadProcessIsTold
<1> SUFFICES ASSUME OwnInv
             PROVE  AnswerGoesToAsker /\ ReplyShownOnce /\ OneCopyPerSession /\ DeadProcessIsTold
  OBVIOUS
<1>1. AnswerGoesToAsker
  BY DEF OwnInv, CodeOwnInv, AskerInv
<1>2. ReplyShownOnce
  BY CodeShows DEF OwnInv
<1>3. OneCopyPerSession
  BY DEF OwnInv, XxmOwnInv, CopyInv, OneCopyPerSession, Xxm!OneCopyPerSession
<1>4. DeadProcessIsTold
  <2>1. CASE process = <<>>
    BY <2>1 DEF DeadProcessIsTold, Line!DeadProcessIsTold
  <2>2. CASE process # <<>>
    BY <2>2, DeadIs DEF OwnInv, LineOwnInv, TransportInv
  <2> QED
    BY <2>1, <2>2
<1> QED
  BY <1>1, <1>2, <1>3, <1>4

LEMMA PromptStep ==
  ASSUME LineOwnInv, Line!CliNext
  PROVE  Line!PromptReachesItsSession
<1> SUFFICES ASSUME posted' # posted, call.session = opened, ~misnamed PROVE process[inner].session = opened
  BY DEF Line!PromptReachesItsSession
<1>1. Line!Sends
  BY DEF Line!CliNext, Line!CliConnect, Line!CliDisconnect, Line!CliDisconnects,
         Line!CliClearSessionScope, Line!CliCallBegins, Line!Opens, Line!CliCallStep, Line!CliProbed,
         Line!Names, Line!OldProcessIsOver, Line!Spawns, Line!SpawnFails, Line!StopRuns,
         Line!ReaderTakes, Line!ReaderHandles, Line!ReaderEnds, Line!ProcessExits, Line!ProcessWrites,
         Line!BeginConnect, Line!CallDisconnect, Line!Begin, Line!BeginSubmit, Line!Goto, Line!ReturnSession
<1>2. call.step = "sending" /\ Line!Running /\ call.prompt # 0
  BY <1>1 DEF Line!Sends, Line!Takes, Line!At
<1>3. opened # None
  BY <1>2, CallsAssumption DEF LineOwnInv, TransportInv, OpenedInv, Ready
<1> QED
  BY <1>2, <1>3 DEF Line!Running, LineOwnInv, TransportInv, OpenedInv

-----------------------------------------------------------------------------
(* OpenCode's answer to a permission request goes to the session that asked *)
(* it, whichever is on screen by then and however often the stream was      *)
(* replaced (respond_to_interaction).                                       *)
THEOREM AnswersReachTheAsker == Spec => []AnswerGoesToAsker
BY OwnInvHolds, OwnInvShows, PTL

(* Whether the agent tells what a reply grew by or the whole of it, mixed   *)
(* as it likes, and whatever stream replaces whatever other, the chat has a *)
(* beginning of the reply and nothing of it twice, unless a piece was told  *)
(* to nobody and the next one shown (handle_event_json, merge_stream_chunk).*)
THEOREM RepliesAreShownOnce == Spec => []ReplyShownOnce
BY OwnInvHolds, OwnInvShows, PTL

(* However a prompt, a list, a failure or a reconnect come between, every   *)
(* turn in a session of Xuexiaomi went to the same copy (writable_session). *)
THEOREM SessionsHaveOneCopy == Spec => []OneCopyPerSession
BY OwnInvHolds, OwnInvShows, PTL

(* A stop ends every turn of its session, those in its copy as well         *)
(* (interrupt).                                                             *)
THEOREM StopsReachTheTurn == Spec => StopReachesTheTurn
<1>1. OwnInv /\ [Next]_vars => [kind = "xuexiaomi" => Xxm!StopReachesTheTurn]_vars
  <2>1. ASSUME OwnInv, Next, kind = "xuexiaomi" PROVE Xxm!StopReachesTheTurn
    <3>1. XxmOwnInv /\ Xxm!XueXiaoMiNext
      BY <2>1 DEF OwnInv, Next, Local
    <3> QED
      BY <3>1, XxmOwnStep
  <2> QED
    BY <2>1
<1> QED
  BY <1>1, OwnInvHolds, PTL DEF Spec, StopReachesTheTurn

(* A local agent that is taken to be connected has not died unnoticed: the  *)
(* exit of its newest process is told, or about to be (ensure_reader,       *)
(* JsonlProcessTransport::stop).                                            *)
THEOREM DeathsAreTold == Spec => []DeadProcessIsTold
BY OwnInvHolds, OwnInvShows, PTL

(* submit_prompt looks at no session: a prompt for the session opened last  *)
(* is written to a process of that session, whatever was opened, stopped or *)
(* failed before, unless the id of a new session was overwritten between    *)
(* where it is set and where it is read back (start_interactive_process).   *)
THEOREM PromptsReachTheirSession == Spec => PromptReachesItsSession
<1>1. OwnInv /\ [Next]_vars => [(kind \in Local) => Line!PromptReachesItsSession]_vars
  <2>1. ASSUME OwnInv, Next, kind \in Local PROVE Line!PromptReachesItsSession
    <3>1. LineOwnInv /\ Line!CliNext
      BY <2>1 DEF OwnInv, Next, Local
    <3> QED
      BY <3>1, PromptStep
  <2> QED
    BY <2>1
<1> QED
  BY <1>1, OwnInvHolds, PTL DEF Spec, PromptReachesItsSession

-----------------------------------------------------------------------------
(* The types of Backend.  Of what a frontend sees, the contract says them,  *)
(* and of the gateways GateInv; CallTypes is the rest of the call.          *)

USE DEF contact, view, prompts, callVars, clawVars, codeVars, xxmVars,
        Gw!contact, Gw!view, Gw!prompts, Gw!callVars, Gw!gatewayVars,
        Claw!contact, Claw!view, Claw!prompts, Claw!callVars, Claw!gatewayVars,
        Herm!contact, Herm!view, Herm!prompts, Herm!callVars, Herm!gatewayVars, Herm!hermesVars,
        Code!codeVars, Code!chatVars, Xxm!contact, Xxm!view, Xxm!prompts, Xxm!callVars, Xxm!gatewayKeeps, Xxm!xxmVars,
        Line!contact, Line!view, Line!prompts, Line!callVars, Line!cliVars

Purses == {"call", "submit", "frame", "fault"}

CallRecord ==
  [op : Op, session : Session \cup {None}, prompt : Nat, step : Steps, reply : Replies]

CallTypes ==
  /\ call \in CallRecord
  /\ \A i \in DOMAIN posted : posted[i] # 0
  /\ bound \in [Purses -> Nat]

SeenTypes ==
  /\ line \in {"silent", "up", "lost", "closed"} /\ greeted \in BOOLEAN
  /\ drawn \subseteq Session \cup {None}

(* What a step may do to the call, to the prompts taken and to the bounds.  *)
CallMoves ==
  \/ call' = call
  \/ \E op \in Op, s \in Session \cup {None}, p \in Nat, step \in Steps :
       call' = NewCall(op, s, p, step)
  \/ \E step \in Steps, r \in Replies : call' = [call EXCEPT !.step = step, !.reply = r]
  \/ \E r \in Replies : call' = [call EXCEPT !.reply = r]

Pays == bound' = bound \/ \E c \in Purses : Spend(c)

PostedMoves == posted' = posted \/ \E p : Takes(p)

CallStep == CallMoves /\ Pays /\ PostedMoves

LEMMA CallsTyped == CallInv /\ CallTypes /\ SeenTypes => CallsTypeOK
<1>1. ASSUME CallInv, CallTypes, SeenTypes PROVE CallsTypeOK
  <2>1. call \in Call
    BY <1>1 DEF CallInv, CallTypes, CallRecord, Call
  <2>2. posted \in Seq(1 .. submits)
    <3>1. /\ posted \in Seq(Nat) /\ submits \in Nat
          /\ \A i \in DOMAIN posted : posted[i] \in 1 .. submits
      BY <1>1 DEF CallInv, CallTypes
    <3> QED
      BY <3>1
  <2> QED
    BY <1>1, <2>1, <2>2 DEF CallsTypeOK, CallInv, CallTypes, SeenTypes, Purses
<1> QED
  BY <1>1

LEMMA SeenStep ==
  ASSUME CallInv, SeenTypes, ContractStep
  PROVE  SeenTypes'
<1>1. CASE UNCHANGED Contract!vars
  BY <1>1 DEF SeenTypes, Contract!vars
<1>2. CASE Contract!Next
  BY <1>2 DEF SeenTypes, CallInv, Contract!Next, Contract!Open, Contract!Close, Contract!Greet, Contract!Lose,
              Contract!Leave, Contract!Ask, Contract!Settle, Contract!Draw, Contract!Post
<1> QED
  BY <1>1, <1>2 DEF ContractStep

LEMMA CallTyped ==
  ASSUME CallInv, CallTypes, CallStep
  PROVE  CallTypes'
<1>1. call' \in CallRecord
  <2>1. CASE \E op \in Op, s \in Session \cup {None}, p \in Nat, step \in Steps :
               call' = NewCall(op, s, p, step)
    BY <2>1 DEF NewCall, CallRecord, Replies
  <2>2. CASE \E step \in Steps, r \in Replies : call' = [call EXCEPT !.step = step, !.reply = r]
    BY <2>2 DEF CallTypes, CallRecord
  <2>3. CASE \E r \in Replies : call' = [call EXCEPT !.reply = r]
    BY <2>3 DEF CallTypes, CallRecord
  <2> QED
    BY <2>1, <2>2, <2>3 DEF CallStep, CallMoves, CallTypes
<1>2. bound' \in [Purses -> Nat]
  <2>1. ASSUME NEW c \in Purses, Spend(c) PROVE bound' \in [Purses -> Nat]
    BY <2>1 DEF Spend, CallTypes
  <2> QED
    BY <2>1 DEF CallStep, Pays, CallTypes
<1>3. \A i \in DOMAIN posted' : posted'[i] # 0
  <2>1. ASSUME NEW p, Takes(p), p # 0 PROVE \A i \in DOMAIN posted' : posted'[i] # 0
    <3>1. posted' = Append(posted, p)
      BY <2>1 DEF Takes
    <3>2. posted \in Seq({p} \cup Nat) /\ p \in {p} \cup Nat
      BY DEF CallInv
    <3>3. \A i \in DOMAIN posted' : (i \in DOMAIN posted /\ posted'[i] = posted[i]) \/ posted'[i] = p
      BY <3>1, <3>2
    <3> QED
      BY <2>1, <3>3 DEF CallTypes
  <2>2. ASSUME NEW p, Takes(p), p = 0 PROVE posted' = posted
    BY <2>2 DEF Takes
  <2> QED
    BY <2>1, <2>2 DEF CallStep, PostedMoves, CallTypes
<1> QED
  BY <1>1, <1>2, <1>3 DEF CallTypes

LEMMA CallEndsMoves ==
  ASSUME call' = NoCall
  PROVE  CallMoves
<1>1. "none" \in Op /\ None \in Session \cup {None} /\ 0 \in Nat /\ "idle" \in Steps
  BY DEF Op, Steps
<1>2. call' = NewCall("none", None, 0, "idle")
  BY DEF NoCall
<1> QED
  BY <1>1, <1>2 DEF CallMoves

LEMMA FacadeMoves ==
  /\ \A op \in Op, s \in Session \cup {None}, first \in Steps : Begin(op, s, first) => CallStep
  /\ CallInv => \A s \in Session, first \in Steps : BeginSubmit(s, first) => CallStep
  /\ \A first \in Steps : BeginConnect(first) => CallStep
  /\ CallDisconnect => CallStep
  /\ CallClearScope => CallStep
  /\ Return => CallStep
  /\ ReturnSession => CallStep
  /\ \A step \in Steps : Goto(step) => CallStep
<1>1. ASSUME NEW op \in Op, NEW s \in Session \cup {None}, NEW first \in Steps, Begin(op, s, first)
      PROVE  CallStep
  BY <1>1 DEF Begin, CallStep, CallMoves, Pays, PostedMoves, Purses
<1>2. ASSUME CallInv, NEW s \in Session, NEW first \in Steps, BeginSubmit(s, first)
      PROVE  CallStep
  <2>1. /\ call' = NewCall("submit", s, submits + 1, first)
        /\ posted' = posted /\ Spend("submit")
    BY <1>2 DEF BeginSubmit
  <2>2. "submit" \in Op /\ s \in Session \cup {None} /\ submits + 1 \in Nat
    BY <1>2 DEF CallInv, Op
  <2>3. CallMoves
    BY <2>1, <2>2 DEF CallMoves
  <2> QED
    BY <2>1, <2>3 DEF CallStep, Pays, PostedMoves, Purses
<1>3. ASSUME NEW first \in Steps, BeginConnect(first)
      PROVE  CallStep
  BY <1>3 DEF BeginConnect, CallStep, CallMoves, Pays, PostedMoves, Purses, Op
<1>4. CallDisconnect \/ CallClearScope => CallStep
  BY DEF CallDisconnect, CallClearScope, CallStep, CallMoves, Pays, PostedMoves, Purses
<1>5. Return \/ ReturnSession => CallStep
  BY CallEndsMoves DEF Return, ReturnSession, CallStep, Pays, PostedMoves
<1>6. ASSUME NEW step \in Steps, Goto(step)
      PROVE  CallStep
  BY <1>6 DEF Goto, CallStep, CallMoves, Pays, PostedMoves, Replies
<1> QED
  BY <1>1, <1>2, <1>3, <1>4, <1>5, <1>6

(* A step that leaves the call, or ends it.                                 *)
LEMMA RestMoves ==
  ASSUME call' = call \/ call' = NoCall, Pays, PostedMoves
  PROVE  CallStep
BY CallEndsMoves DEF CallStep, CallMoves

LEMMA Spends ==
  \A c : /\ Claw!Spend(c) <=> Spend(c)
         /\ Herm!Spend(c) <=> Spend(c)
         /\ Gw!Spend(c) <=> Spend(c)
         /\ Code!Spend(c) <=> Spend(c)
         /\ Xxm!Spend(c) <=> Spend(c)
         /\ Line!Spend(c) <=> Spend(c)
BY DEF Claw!Spend, Herm!Spend, Gw!Spend, Code!Spend, Xxm!Spend, Line!Spend, Spend

-----------------------------------------------------------------------------
(* OpenCode and MiMoCode. *)

LEMMA CodeCallStep ==
  ASSUME CallInv, Code!OpenCodeNext
  PROVE  CallStep
<1>1. CASE Code!CodeConnect \/ Code!CodeDisconnect \/ Code!CodeClearSessionScope
  BY <1>1, CodeCalls, FacadeMoves
  DEF Steps, Code!CodeConnect, Code!CodeDisconnect, Code!CodeClearSessionScope
<1>2. CASE Code!CodeCallBegins \/ Code!CodeResponds
  <2>1. \/ \E op \in Op, s \in Session \cup {None} : Begin(op, s, "http")
        \/ \E s \in Session : BeginSubmit(s, "http")
    BY <1>2, CodeCalls DEF Code!CodeCallBegins, Code!CodeResponds, Op
  <2> QED
    BY <2>1, FacadeMoves DEF Steps
<1>3. CASE Code!CodeProbed \/ Code!CodeAnswered
  <2>1. call' = NoCall
    BY <1>3, CodeCalls DEF Code!CodeProbed, Code!CodeAnswered, Code!Return, Code!ReturnSession
  <2>2. bound' = bound \/ Spend("fault")
    BY <1>3, Spends DEF Code!CodeProbed, Code!CodeAnswered, Code!Return, Code!ReturnSession
  <2>3. posted' = posted \/ \E p : Takes(p)
    BY <1>3, CodeCalls DEF Code!CodeProbed, Code!CodeAnswered, Code!Return, Code!ReturnSession
  <2> QED
    BY <2>1, <2>2, <2>3, RestMoves DEF Pays, PostedMoves, Purses
<1>4. CASE Code!TurnStarts \/ Code!ReplyGrows \/ Code!PartUnheard \/ Code!TurnEndsUnheard
  BY <1>4, RestMoves
  DEF Code!TurnStarts, Code!ReplyGrows, Code!PartUnheard, Code!TurnEndsUnheard, Pays, PostedMoves
<1>5. ASSUME NEW t \in DOMAIN streams, Code!CodeTaskStep(t) \/ Code!CodeBreaks(t) \/ Code!CodeFrame(t)
      PROVE  CallStep
  <2>1. call' = call /\ posted' = posted /\ (bound' = bound \/ \E c \in Purses : Spend(c))
    BY <1>5, Spends
    DEF Code!CodeTaskStep, Code!CodeOpens, Code!CodeAborts, Code!CodeBreaks, Code!CodeFrame,
        Code!MessageUpdated, Code!PartUpdated, Code!PermissionUpdated, Code!OtherFrame, Code!SessionIdle,
        Code!Passes, Code!Ends, Purses
  <2> QED
    BY <2>1, RestMoves DEF Pays, PostedMoves
<1> QED
  BY <1>1, <1>2, <1>3, <1>4, <1>5 DEF Code!OpenCodeNext, Code!CodeCallStep

LEMMA CodeTyped ==
  ASSUME CodeInv', CodeOwnInv', configured \in BOOLEAN, Code!OpenCodeNext
  PROVE  Code!CodeTypeOK'
<1>1. configured' \in BOOLEAN
  BY DEF Code!OpenCodeNext, Code!CodeConnect, Code!CodeDisconnect, Code!CodeClearSessionScope,
         Code!CodeCallBegins, Code!CodeResponds, Code!CodeCallStep, Code!CodeProbed, Code!CodeAnswered,
         Code!TurnStarts, Code!ReplyGrows, Code!PartUnheard, Code!TurnEndsUnheard, Code!CodeTaskStep, Code!CodeOpens,
         Code!CodeAborts, Code!CodeBreaks, Code!CodeFrame, Code!MessageUpdated, Code!PartUpdated,
         Code!PermissionUpdated, Code!OtherFrame, Code!SessionIdle, Code!Passes
<1> QED
  BY <1>1 DEF Code!CodeTypeOK, CodeInv, CodeOwnInv, CodeTypes, ChatInv, Anyone

-----------------------------------------------------------------------------
(* Xuexiaomi. *)

LEMMA XxmCallStep ==
  ASSUME CallInv, CallTypes, Xxm!XueXiaoMiNext
  PROVE  CallStep
<1>1. CASE Xxm!XxmConnect \/ Xxm!XxmDisconnect \/ Xxm!XxmClearSessionScope
  BY <1>1, XxmCalls, FacadeMoves
  DEF Steps, Xxm!XxmConnect, Xxm!XxmDisconnect, Xxm!XxmClearSessionScope
<1>2. CASE Xxm!XxmCallBegins
  <2>1. \/ \E op \in Op, s \in Session \cup {None}, first \in Steps : Begin(op, s, first)
        \/ \E s \in Session, first \in Steps : BeginSubmit(s, first)
    BY <1>2, XxmCalls DEF Xxm!XxmCallBegins, Op, Steps
  <2> QED
    BY <2>1, FacadeMoves
<1>3. CASE Xxm!XxmProbed \/ Xxm!XxmRequestFails
  <2>1. call' = NoCall /\ posted' = posted /\ (bound' = bound \/ Spend("fault"))
    BY <1>3, XxmCalls, Spends DEF Xxm!XxmProbed, Xxm!XxmRequestFails
  <2> QED
    BY <2>1, RestMoves DEF Pays, PostedMoves, Purses
<1>4. CASE Xxm!XxmOpens \/ Xxm!XxmListed \/ Xxm!XxmInterrupts
  <2>1. call' = NoCall /\ posted' = posted /\ bound' = bound
    BY <1>4, XxmCalls DEF Xxm!XxmOpens, Xxm!XxmListed, Xxm!XxmInterrupts, Xxm!Return, Xxm!ReturnSession
  <2> QED
    BY <2>1, RestMoves DEF Pays, PostedMoves
<1>5. CASE Xxm!XxmResumed \/ Xxm!Continues
  <2>1. /\ \E step \in Steps : call' = [call EXCEPT !.step = step, !.reply = "none"]
        /\ posted' = posted /\ bound' = bound
    BY <1>5 DEF Xxm!XxmResumed, Xxm!Continues, Xxm!Goto, Steps
  <2>2. "none" \in Replies
    BY DEF Replies
  <2> QED
    BY <2>1, <2>2 DEF CallStep, CallMoves, Pays, PostedMoves
<1>6. CASE Xxm!Posts
  <2>1. CASE Xxm!Refuses
    BY <1>6, <2>1, XxmCalls, RestMoves DEF Xxm!Posts, Pays, PostedMoves
  <2>2. CASE ~Xxm!Refuses
    <3>1. call' = [call EXCEPT !.step = "taken"] /\ Takes(call.prompt) /\ bound' = bound
      BY <1>6, <2>2, XxmCalls DEF Xxm!Posts
    <3>2. call' = [call EXCEPT !.step = "taken", !.reply = call.reply]
      BY <1>6, <3>1 DEF CallTypes, CallRecord
    <3>3. "taken" \in Steps /\ call.reply \in Replies
      BY <1>6 DEF CallTypes, CallRecord, Steps
    <3> QED
      BY <3>1, <3>2, <3>3 DEF CallStep, CallMoves, Pays, PostedMoves
  <2> QED
    BY <2>1, <2>2
<1>7. CASE Xxm!StartsTurn
  <2>1. call' = NoCall /\ posted' = posted /\ bound' = bound
    BY <1>7, XxmCalls DEF Xxm!StartsTurn
  <2> QED
    BY <2>1, RestMoves DEF Pays, PostedMoves
<1>8. ASSUME NEW i \in DOMAIN turns, Xxm!XxmTaskStep(i) \/ Xxm!TurnFrame(i)
      PROVE  CallStep
  <2>1. call' = call /\ posted' = posted /\ (bound' = bound \/ Spend("frame"))
    BY <1>8, Spends DEF Xxm!XxmTaskStep, Xxm!TurnEnds, Xxm!TurnAborts, Xxm!TurnFrame
  <2> QED
    BY <2>1, RestMoves DEF Pays, PostedMoves, Purses
<1> QED
  BY <1>1, <1>2, <1>3, <1>4, <1>5, <1>6, <1>7, <1>8 DEF Xxm!XueXiaoMiNext, Xxm!XxmCallStep

(* `running` names turns there are, and `loaded` sessions.                  *)
LEMMA XxmTyped ==
  ASSUME CallInv, CallInv', XxmInv, XxmInv', XxmOwnInv, XxmOwnInv', Xxm!XxmTypeOK, Xxm!XueXiaoMiNext
  PROVE  Xxm!XxmTypeOK'
<1>1. Len(turns) \in Nat /\ turns \in Seq(Xxm!StreamedTurn) /\ DOMAIN turns = 1 .. Len(turns)
  BY DEF XxmOwnInv, XxmTypes
<1>2. turns' \in Seq(Xxm!StreamedTurn) /\ Len(turns') \in Nat /\ DOMAIN turns' = 1 .. Len(turns')
  BY DEF XxmOwnInv, XxmTypes
<1>3. ASSUME DOMAIN turns' = DOMAIN turns,
             running' = running \/ running' = [s \in Session |-> 0]
               \/ \E s \in Session : running' = [running EXCEPT ![s] = 0]
      PROVE  running' \in [Session -> 0 .. Len(turns')]
  <2>1. \A n, m \in Nat : 1 .. n = 1 .. m => n = m
    OBVIOUS
  <2>2. Len(turns') = Len(turns)
    BY <1>1, <1>2, <1>3, <2>1
  <2>3. running \in [Session -> 0 .. Len(turns)] /\ 0 \in 0 .. Len(turns)
    BY <1>1 DEF Xxm!XxmTypeOK
  <2>4. running' \in [Session -> 0 .. Len(turns)]
    <3> DEFINE T == 0 .. Len(turns)
    <3>1. running \in [Session -> T] /\ 0 \in T
      BY <2>3
    <3> HIDE DEF T
    <3>2. running' \in [Session -> T]
      BY <1>3, <3>1
    <3> QED
      BY <3>2 DEF T
  <2> QED
    BY <2>2, <2>4
<1>4. running' \in [Session -> 0 .. Len(turns')] /\ loaded' \subseteq Session
  <2>1. CASE Xxm!XxmConnect \/ Xxm!XxmDisconnect
    BY <1>3, <2>1 DEF Xxm!XxmConnect, Xxm!XxmDisconnect, Xxm!Disconnects, Xxm!Drained
  <2>2. CASE \/ Xxm!XxmClearSessionScope \/ Xxm!XxmProbed \/ Xxm!XxmCallBegins \/ Xxm!XxmOpens
             \/ Xxm!Continues \/ Xxm!Posts \/ Xxm!XxmRequestFails
    <3>1. UNCHANGED <<turns, running, loaded>>
      BY <2>2 DEF Xxm!XxmClearSessionScope, Xxm!XxmProbed, Xxm!XxmCallBegins, Xxm!XxmOpens,
                  Xxm!Continues, Xxm!Posts, Xxm!XxmRequestFails
    <3> QED
      BY <1>3, <3>1 DEF Xxm!XxmTypeOK
  <2>3. CASE Xxm!XxmListed
    <3>1. UNCHANGED <<turns, running>> /\ loaded' \subseteq loaded \cup Session
      BY <2>3 DEF Xxm!XxmListed
    <3> QED
      BY <1>3, <3>1 DEF Xxm!XxmTypeOK
  <2>4. CASE Xxm!XxmResumed
    <3>1. UNCHANGED <<turns, running>> /\ loaded' = loaded \cup {call.session} /\ call.session \in Session
      BY <2>4 DEF Xxm!XxmResumed, XxmInv, CallInv
    <3> QED
      BY <1>3, <3>1 DEF Xxm!XxmTypeOK
  <2>5. CASE Xxm!XxmInterrupts
    <3>1. UNCHANGED <<running, loaded>> /\ DOMAIN turns' = DOMAIN turns
      BY <2>5 DEF Xxm!XxmInterrupts
    <3> QED
      BY <1>3, <3>1 DEF Xxm!XxmTypeOK
  <2>6. CASE Xxm!StartsTurn
    <3> DEFINE others == [i \in DOMAIN turns |->
                 IF i = running[call.session] /\ turns[i].task = "streaming"
                 THEN [turns[i] EXCEPT !.task = "aborted"] ELSE turns[i]]
               started == [session |-> call.session, target |-> Xxm!Target(call.session), events |-> events,
                           over |-> FALSE, task |-> "streaming"]
    <3>1. /\ call.session \in Session /\ turns' = Append(others, started)
          /\ running' = [running EXCEPT ![call.session] = Len(turns')]
          /\ loaded' = loaded \cup {call.session}
      BY <2>6 DEF Xxm!StartsTurn, Xxm!At, XxmOwnInv, XxmTypes
    <3>2. others \in Seq({others[i] : i \in DOMAIN turns}) /\ Len(others) = Len(turns)
      BY <1>1
    <3> HIDE DEF others, started
    <3>3. Len(turns') = Len(turns) + 1
      BY <3>1, <3>2
    <3>4. running \in [Session -> 0 .. Len(turns')] /\ Len(turns') \in 0 .. Len(turns')
      BY <1>1, <3>3 DEF Xxm!XxmTypeOK
    <3> QED
      BY <3>1, <3>4 DEF Xxm!XxmTypeOK
  <2>7. ASSUME NEW i \in DOMAIN turns, Xxm!TurnEnds(i) \/ Xxm!TurnAborts(i) \/ Xxm!TurnFrame(i)
        PROVE  running' \in [Session -> 0 .. Len(turns')] /\ loaded' \subseteq Session
    <3>1. /\ turns[i].session \in Session
          /\ DOMAIN turns' = DOMAIN turns /\ loaded' = loaded
          /\ running' = running \/ running' = [running EXCEPT ![turns[i].session] = 0]
      <4>1. turns[i] \in Xxm!StreamedTurn
        BY <1>1
      <4>2. turns[i].session \in Session
        BY <4>1 DEF Xxm!StreamedTurn
      <4> QED
        BY <2>7, <4>2 DEF Xxm!TurnEnds, Xxm!TurnAborts, Xxm!TurnFrame
    <3> QED
      BY <1>3, <3>1 DEF Xxm!XxmTypeOK
  <2> QED
    BY <2>1, <2>2, <2>3, <2>4, <2>5, <2>6, <2>7
    DEF Xxm!XueXiaoMiNext, Xxm!XxmCallStep, Xxm!XxmTaskStep
<1>5. active' \in Session \cup {None} /\ readOnly' \subseteq Session
  BY BackendAssumption DEF XxmInv, CallInv, XxmOwnInv, XxmTypes
<1> QED
  BY <1>4, <1>5 DEF Xxm!XxmTypeOK, XxmOwnInv, XxmTypes

-----------------------------------------------------------------------------
(* The local command line agents.  Their processes and output are typed by  *)
(* LineOwnInv.                                                              *)

LineMoves ==
  /\ events' \in Nat /\ reader' \in Nat /\ stops' \in Nat
  /\ live' \in Anyone /\ argument' \in Anyone /\ misnamed' \in BOOLEAN
  /\ heard' \subseteq Session

LEMMA LineMovesTyped ==
  ASSUME LineOwnInv', LineMoves
  PROVE  Line!CliTypeOK'
<1>1. /\ process' \in Seq([session : Session, reader : Nat, alive : BOOLEAN, signalled : BOOLEAN])
      /\ inner' \in 0 .. Len(process')
      /\ output' \in Seq([from : Nat, what : {"line", "system", "question", "exit"}])
      /\ opened' \in Anyone
  BY DEF LineOwnInv, TransportInv, ProcessTypes, Told
<1>2. inHand' = Line!Nothing \/ inHand'.from \in DOMAIN process'
  BY DEF LineOwnInv, WrittenInv
<1> QED
  BY <1>1, <1>2 DEF Line!CliTypeOK, LineMoves, Anyone, Line!Nothing

LEMMA LineCallStep ==
  ASSUME CallInv, CallTypes, Line!CliTypeOK, Line!CliNext
  PROVE  CallStep
<1>1. CASE Line!CliConnect \/ Line!CliDisconnect
  BY <1>1, LineCalls, FacadeMoves DEF Steps, Line!CliConnect, Line!CliDisconnect
<1>2. CASE Line!CliCallBegins
  <2>1. \/ \E op \in Op, s \in Session \cup {None}, first \in Steps : Begin(op, s, first)
        \/ \E s \in Session, first \in Steps : BeginSubmit(s, first)
    <3>1. CASE \E s \in Session : Line!Opens("create", s) \/ Line!Opens("resume", s)
      BY <3>1, LineCalls DEF Line!Opens, Op, Steps
    <3>2. CASE \E op \in {"interrupt", "respond"} : Line!Begin(op, None, "sending")
      BY <3>2, LineCalls DEF Op, Steps
    <3>3. CASE \E s \in Session : Line!BeginSubmit(s, "sending")
      BY <3>3, LineCalls DEF Steps
    <3> QED
      BY <1>2, <3>1, <3>2, <3>3 DEF Line!CliCallBegins
  <2> QED
    BY <2>1, FacadeMoves
<1>3. CASE Line!Names \/ Line!OldProcessIsOver
  <2>1. /\ \E step \in {"failing", "stopping", "spawning"} : call' = [call EXCEPT !.step = step, !.reply = "none"]
        /\ posted' = posted /\ bound' = bound
    BY <1>3 DEF Line!Names, Line!OldProcessIsOver, Line!Goto
  <2>2. {"failing", "stopping", "spawning"} \subseteq Steps /\ "none" \in Replies
    BY DEF Steps, Replies
  <2> QED
    BY <2>1, <2>2 DEF CallStep, CallMoves, Pays, PostedMoves
<1>4. CASE Line!CliProbed \/ Line!Spawns \/ Line!Sends \/ Line!SpawnFails
  <2>1. /\ call' = NoCall
        /\ bound' = bound \/ Spend("fault")
        /\ posted' = posted \/ \E p : Takes(p)
    BY <1>4, LineCalls, Spends
    DEF Line!CliProbed, Line!Spawns, Line!Sends, Line!SpawnFails, Line!ReturnSession, Line!Greets
  <2> QED
    BY <2>1, RestMoves DEF Pays, PostedMoves, Purses
<1>5. CASE \/ Line!CliClearSessionScope \/ Line!StopRuns \/ Line!ReaderTakes \/ Line!ReaderHandles
           \/ Line!ReaderEnds \/ \E p \in DOMAIN process : Line!ProcessExits(p) \/ Line!ProcessWrites(p)
  <2>1. /\ call' = call /\ posted' = posted
        /\ bound' = bound \/ \E c \in Purses : Spend(c)
    BY <1>5, Spends
    DEF Line!CliClearSessionScope, Line!StopRuns, Line!ReaderTakes, Line!ReaderHandles,
        Line!ReaderEnds, Line!ProcessExits, Line!ProcessWrites, Purses
  <2> QED
    BY <2>1, RestMoves DEF Pays, PostedMoves
<1> QED
  BY <1>1, <1>2, <1>3, <1>4, <1>5 DEF Line!CliNext, Line!CliCallStep

LEMMA LineTyped ==
  ASSUME CallInv, CallTypes, LineOwnInv, LineOwnInv', Line!CliTypeOK, Line!CliNext
  PROVE  Line!CliTypeOK'
<1>1. /\ events \in Nat /\ reader \in Nat /\ stops \in Nat /\ channel \in Nat
      /\ live \in Anyone /\ argument \in Anyone /\ misnamed \in BOOLEAN /\ heard \subseteq Session
      /\ None \in Anyone /\ Session \subseteq Anyone /\ call.session \in Anyone
  BY DEF Line!CliTypeOK, CallInv, Anyone
<1>2. LineOwnInv' /\ (LineMoves => Line!CliTypeOK')
  BY LineMovesTyped
<1>3. CASE Line!CliConnect \/ Line!CliDisconnect
  <2>1. UNCHANGED <<argument, misnamed>> /\ events' = 0 /\ reader' = 0 /\ live' = None
        /\ heard' = {} /\ stops' = stops + 1
    BY <1>3 DEF Line!CliConnect, Line!CliDisconnect, Line!CliDisconnects
  <2> QED
    BY <1>1, <1>2, <2>1 DEF LineMoves
<1>4. CASE Line!StopRuns
  <2>1. stops' = stops - 1 /\ stops > 0 /\ UNCHANGED <<events, reader, live, argument, misnamed, heard>>
    BY <1>4 DEF Line!StopRuns
  <2> QED
    BY <1>1, <1>2, <2>1 DEF LineMoves
<1>5. CASE Line!CliProbed
  <2>1. /\ events' \in {events, channel} /\ reader' \in {reader, channel}
        /\ UNCHANGED <<live, stops, argument, misnamed, heard>>
    BY <1>5 DEF Line!CliProbed
  <2> QED
    BY <1>1, <1>2, <2>1 DEF LineMoves
<1>6. CASE \/ Line!CliClearSessionScope \/ Line!OldProcessIsOver \/ Line!SpawnFails \/ Line!Sends
           \/ Line!ReaderEnds \/ Line!ReaderTakes
           \/ \E p \in DOMAIN process : Line!ProcessExits(p) \/ Line!ProcessWrites(p)
  <2>1. UNCHANGED <<events, reader, live, stops, argument, misnamed>> /\ heard' \in {heard, {}}
    BY <1>6 DEF Line!CliClearSessionScope, Line!OldProcessIsOver, Line!SpawnFails, Line!Sends,
                Line!ReaderEnds, Line!ReaderTakes, Line!ProcessExits, Line!ProcessWrites
  <2> QED
    BY <1>1, <1>2, <2>1 DEF LineMoves
<1>7. CASE Line!CliCallBegins
  <2>1. CASE UNCHANGED Line!cliVars
    BY <1>1, <1>2, <2>1 DEF LineMoves
  <2>2. ASSUME NEW s \in Session, Line!Opens("create", s) \/ Line!Opens("resume", s)
        PROVE  LineMoves
    <3>1. UNCHANGED <<events, reader, stops, argument, misnamed, heard>> /\ live' \in {s, live}
      BY <2>2 DEF Line!Opens
    <3> QED
      BY <1>1, <3>1 DEF LineMoves
  <2> QED
    BY <1>2, <1>7, <2>1, <2>2 DEF Line!CliCallBegins
<1>8. CASE Line!Names
  <2>1. /\ UNCHANGED <<events, reader, live, stops, heard>>
        /\ argument' \in {call.session, live}
        /\ misnamed' = misnamed \/ misnamed' = (call.op = "create" /\ live # call.session)
    BY <1>8 DEF Line!Names, Line!StartsWith
  <2>2. misnamed' \in BOOLEAN
    BY <1>1, <2>1
  <2> QED
    BY <1>1, <1>2, <2>1, <2>2 DEF LineMoves
<1>9. CASE Line!Spawns
  <2>1. /\ live' \in {call.session, live} /\ heard' = {}
        /\ UNCHANGED <<events, reader, stops, argument, misnamed>>
    BY <1>9 DEF Line!Spawns
  <2> QED
    BY <1>1, <1>2, <2>1 DEF LineMoves
<1>10. CASE Line!ReaderHandles
  <2>1. /\ UNCHANGED <<events, reader, stops, argument, misnamed>>
        /\ Line!HandlesLine \/ Line!HandlesExit
    BY <1>10 DEF Line!ReaderHandles
  <2>2. live' \in Anyone /\ heard' \subseteq Session
    <3>1. CASE Line!HandlesLine
      <4>1. process[inHand.from].session \in Session
        BY <3>1, LineNamesSession DEF LineOwnInv, TransportInv
      <4> QED
        BY <1>1, <3>1, <4>1 DEF Line!HandlesLine
    <3>2. CASE Line!HandlesExit
      BY <1>1, <3>2 DEF Line!HandlesExit
    <3> QED
      BY <2>1, <3>1, <3>2
  <2> QED
    BY <1>1, <1>2, <2>1, <2>2 DEF LineMoves
<1> QED
  BY <1>3, <1>4, <1>5, <1>6, <1>7, <1>8, <1>9, <1>10 DEF Line!CliNext, Line!CliCallStep

-----------------------------------------------------------------------------
(* The gateways of OpenClaw and Hermes.  A request in a queue is the call's *)
(* and those on a wire were submitted, by GateInv.                          *)

LEMMA GatesTyped ==
  ASSUME CallInv, GateInv
  PROVE  Herm!GatewayTypeOK
<1>1. /\ gateways \in Seq(GateRecord) /\ gateway \in 0 .. Len(gateways)
      /\ submits \in Nat /\ call.prompt \in 0 .. submits
  BY DEF GateInv, GateTypes, CallInv
<1>2. ASSUME NEW g \in DOMAIN gateways
      PROVE  gateways[g] \in Herm!Gateway
  <2> DEFINE gw == gateways[g]
             q == gw.commands
             w == gw.wire
  <2>1. gw \in GateRecord
    BY <1>1
  <2>2. q \in Seq(GateCommand) /\ w \in Seq(Nat)
    BY <2>1 DEF GateRecord
  <2>3. \A i \in DOMAIN w : w[i] <= submits
    BY DEF GateInv, Prompts
  <2>4. \A i \in DOMAIN q : IsRequest(q[i]) => q[i].prompt = call.prompt
    BY DEF GateInv, GateQueues
  <2>5. ASSUME NEW i \in DOMAIN q PROVE q[i] \in Herm!Command
    <3>1. q[i] \in GateCommand
      BY <2>2, <2>5
    <3>2. CASE q[i] \in [kind : {"request"}, prompt : Nat]
      <4>1. q[i].kind = "request" /\ q[i] = [kind |-> "request", prompt |-> q[i].prompt]
        BY <3>2
      <4>2. q[i].prompt \in 0 .. submits
        BY <1>1, <2>4, <2>5, <4>1 DEF IsRequest
      <4> QED
        BY <4>1, <4>2 DEF Herm!Command
    <3>3. CASE q[i] \notin [kind : {"request"}, prompt : Nat]
      BY <3>1, <3>3 DEF GateCommand, Herm!Command
    <3> QED
      BY <3>2, <3>3
  <2>6. w \in Seq(0 .. submits)
    <3>1. \A i \in DOMAIN w : w[i] \in 0 .. submits
      BY <1>1, <2>2, <2>3
    <3> DEFINE T == 0 .. submits
    <3>2. \A i \in DOMAIN w : w[i] \in T
      BY <3>1
    <3> HIDE DEF w, T
    <3>3. w \in Seq(T)
      BY <2>2, <3>2
    <3> QED
      BY <3>3 DEF T
  <2>7. q \in Seq(Herm!Command)
    <3> HIDE DEF q
    <3> QED
      BY <2>2, <2>5
  <2>8. gw = [events |-> gw.events, task |-> gw.task, aborted |-> gw.aborted, commands |-> q, wire |-> w,
              state |-> gw.state, handshake |-> gw.handshake, active |-> gw.active]
    BY <2>1 DEF GateRecord
  <2>9. /\ gw.events \in Nat /\ gw.task \in {"dialing", "open", "ended"} /\ gw.aborted \in BOOLEAN
        /\ gw.state \in {"pending", "connected", "failed"}
        /\ gw.handshake \in {"none", "asked", "accepted", "rejected", "done"}
        /\ gw.active \in Session \cup {None}
    BY <2>1 DEF GateRecord
  <2> HIDE DEF q, w
  <2> QED
    BY <2>6, <2>7, <2>8, <2>9 DEF Herm!Gateway
<1> QED
  BY <1>1, <1>2 DEF Herm!GatewayTypeOK

LEMMA GateCallStep ==
  ASSUME CallInv, CallTypes
  PROVE  /\ \A first \in Steps : Gw!Connect(first) => CallStep
         /\ Gw!Disconnect => CallStep
         /\ \A commands : \A next \in Steps : Gw!Queues(commands, next) => CallStep
         /\ Gw!RequestTimesOut => CallStep
         /\ \A g : Gw!SendsRequest(g) \/ Gw!Closes(g) \/ Gw!Aborts(g) => CallStep
         /\ \A g, i : \A r \in Replies : Gw!Serves(g, i, r) => CallStep
         /\ \A g, state : Gw!Breaks(g, state) => CallStep
<1>1. ASSUME NEW r \in Replies, Gw!Reply(r) PROVE CallMoves
  BY <1>1 DEF Gw!Reply, CallMoves
<1>2. /\ \A first \in Steps : Gw!Connect(first) => CallStep
      /\ Gw!Disconnect => CallStep
  BY GateCalls, FacadeMoves DEF Gw!Connect, Gw!Disconnect
<1>3. ASSUME NEW commands, NEW next \in Steps, Gw!Queues(commands, next)
      PROVE  CallStep
  <2>1. \E r \in Replies : call' = [call EXCEPT !.step = next, !.reply = r]
    BY <1>3 DEF Gw!Queues, Replies
  <2>2. CallMoves
    BY <2>1 DEF CallMoves
  <2> QED
    BY <1>3, <2>2 DEF Gw!Queues, CallStep, Pays, PostedMoves
<1>4. ASSUME Gw!RequestTimesOut PROVE CallStep
  BY <1>1, <1>4, Spends DEF Gw!RequestTimesOut, CallStep, Pays, PostedMoves, Purses, Replies
<1>5. ASSUME NEW g, Gw!SendsRequest(g) \/ Gw!Closes(g) \/ Gw!Aborts(g)
      PROVE  CallStep
  <2>1. CallMoves
    BY <1>1, <1>5 DEF Gw!SendsRequest, Gw!Closes, Gw!Aborts, CallMoves, Replies
  <2>2. Pays /\ PostedMoves
    BY <1>5, Spends DEF Gw!SendsRequest, Gw!Closes, Gw!Aborts, Pays, PostedMoves, Purses
  <2> QED
    BY <2>1, <2>2 DEF CallStep
<1>6. ASSUME NEW g, NEW i, NEW r \in Replies, Gw!Serves(g, i, r)
      PROVE  CallStep
  <2>1. CallMoves
    BY <1>1, <1>6 DEF Gw!Serves, Gw!Answers, CallMoves
  <2>2. Pays /\ PostedMoves
    BY <1>6, GateCalls DEF Gw!Serves, Pays, PostedMoves
  <2> QED
    BY <2>1, <2>2 DEF CallStep
<1>7. ASSUME NEW g, NEW state, Gw!Breaks(g, state)
      PROVE  CallStep
  <2>1. CallMoves
    BY <1>1, <1>7 DEF Gw!Breaks, Gw!Drops, CallMoves, Replies
  <2>2. Pays /\ PostedMoves
    BY <1>7, Spends DEF Gw!Breaks, Pays, PostedMoves, Purses
  <2> QED
    BY <2>1, <2>2 DEF CallStep
<1> QED
  BY <1>2, <1>3, <1>4, <1>5, <1>6, <1>7

LEMMA ClawCallStep ==
  ASSUME CallInv, CallTypes, Claw!OpenClawNext
  PROVE  CallStep
<1>1. CASE Claw!ClawConnect \/ Claw!Disconnect \/ Claw!RequestTimesOut
  BY <1>1, ClawGates, GateCallStep DEF Claw!ClawConnect, Steps
<1>2. CASE Claw!ClawClearSessionScope
  <2>1. call' = call /\ posted' = posted /\ Spend("call")
    BY <1>2, Spends DEF Claw!ClawClearSessionScope
  <2> QED
    BY <2>1, RestMoves DEF Pays, PostedMoves, Purses
<1>3. CASE Claw!ClawCallBegins
  <2>1. \/ \E op \in Op, s \in Session \cup {None}, first \in Steps : Begin(op, s, first)
        \/ \E s \in Session, first \in Steps : BeginSubmit(s, first)
    BY <1>3, ClawCalls DEF Claw!ClawCallBegins, Claw!Ensuring, Op, Steps
  <2> QED
    BY <2>1, FacadeMoves
<1>4. CASE Claw!WaitConnected \/ Claw!ClawReturns
  <2>1. Return \/ ReturnSession \/ Goto("asking")
    BY <1>4, ClawCalls DEF Claw!WaitConnected, Claw!ClawReturns
  <2> QED
    BY <2>1, FacadeMoves DEF Steps
<1>5. CASE Claw!ClawAsks \/ Claw!SubscribeToSession \/ Claw!AsksLegacy
  <2>1. \E commands : \E next \in Steps : Gw!Queues(commands, next)
    BY <1>5, ClawGates DEF Claw!ClawAsks, Claw!SubscribeToSession, Claw!AsksLegacy, Steps
  <2> QED
    BY <2>1, GateCallStep
<1>6. CASE Claw!WaitTimesOut
  <2>1. call' = NoCall /\ posted' = posted /\ Spend("fault")
    BY <1>6, ClawCalls, Spends DEF Claw!WaitTimesOut
  <2> QED
    BY <2>1, RestMoves DEF Pays, PostedMoves, Purses
<1>7. ASSUME NEW g \in DOMAIN gateways,
             \/ Claw!SendsRequest(g) \/ Claw!Closes(g) \/ Claw!Aborts(g) \/ Claw!ClawServes(g)
             \/ Claw!ClawBreaks(g)
      PROVE  CallStep
  <2>1. CASE Claw!SendsRequest(g) \/ Claw!Closes(g) \/ Claw!Aborts(g)
    BY <2>1, ClawGates, GateCallStep
  <2>2. CASE Claw!ClawServes(g)
    <3>1. \E i, r : r \in Replies /\ Gw!Serves(g, i, r)
      BY <2>2, ClawGates DEF Claw!ClawServes, Replies
    <3> QED
      BY <3>1, GateCallStep
  <2>3. CASE Claw!ClawBreaks(g)
    BY <2>3, ClawGates, GateCallStep DEF Claw!ClawBreaks
  <2> QED
    BY <1>7, <2>1, <2>2, <2>3
<1>8. ASSUME NEW g \in DOMAIN gateways,
             \/ Claw!SetsActive(g) \/ Claw!Challenged(g) \/ Claw!HandshakeAnswered(g)
             \/ Claw!HandshakeTold(g) \/ Claw!HandshakeFails(g) \/ Claw!ClawFrame(g)
      PROVE  CallStep
  <2>1. call' = call /\ posted' = posted /\ (bound' = bound \/ \E c \in Purses : Spend(c))
    BY <1>8, Spends
    DEF Claw!SetsActive, Claw!Challenged, Claw!HandshakeAnswered, Claw!HandshakeTold,
        Claw!HandshakeFails, Claw!ClawFrame, Purses
  <2> QED
    BY <2>1, RestMoves DEF Pays, PostedMoves
<1>9. ASSUME NEW g \in DOMAIN gateways, Claw!ClawDials(g)
      PROVE  CallStep
  <2>1. CallMoves
    BY <1>9 DEF Claw!ClawDials, Claw!Drops, Claw!Reply, CallMoves, Replies
  <2>2. Pays /\ PostedMoves
    BY <1>9, Spends DEF Claw!ClawDials, Pays, PostedMoves, Purses
  <2> QED
    BY <2>1, <2>2 DEF CallStep
<1> QED
  BY <1>1, <1>2, <1>3, <1>4, <1>5, <1>6, <1>7, <1>8, <1>9
  DEF Claw!OpenClawNext, Claw!ClawCallStep, Claw!ClawTaskStep

LEMMA HermCallStep ==
  ASSUME CallInv, CallTypes, Herm!HermesNext
  PROVE  CallStep
<1>1. CASE Herm!HermesConnect \/ Herm!HermesDisconnect \/ Herm!RequestTimesOut
  BY <1>1, HermGates, GateCallStep DEF Herm!HermesConnect, Herm!HermesDisconnect, Steps
<1>2. CASE Herm!HermesClearSessionScope
  BY <1>2, HermCalls, FacadeMoves DEF Herm!HermesClearSessionScope
<1>3. CASE Herm!HermesCallBegins
  <2>1. \/ \E op \in Op, s \in Session \cup {None}, first \in Steps : Begin(op, s, first)
        \/ \E s \in Session, first \in Steps : BeginSubmit(s, first)
    BY <1>3, HermCalls DEF Herm!HermesCallBegins, Op, Steps
  <2> QED
    BY <2>1, FacadeMoves
<1>4. CASE Herm!HermesOpens \/ Herm!HermesReturns
  <2>1. Return \/ ReturnSession
    BY <1>4, HermCalls DEF Herm!HermesOpens, Herm!HermesReturns
  <2> QED
    BY <2>1, FacadeMoves
<1>5. CASE Herm!HermesAsks
  <2>1. \E commands : \E next \in Steps : Gw!Queues(commands, next)
    BY <1>5, HermGates DEF Herm!HermesAsks, Steps
  <2> QED
    BY <2>1, GateCallStep
<1>6. ASSUME NEW g \in DOMAIN gateways,
             \/ Herm!SendsRequest(g) \/ Herm!Closes(g) \/ Herm!Aborts(g) \/ Herm!HermesServes(g)
             \/ Herm!HermesBreaks(g)
      PROVE  CallStep
  <2>1. CASE Herm!SendsRequest(g) \/ Herm!Closes(g) \/ Herm!Aborts(g)
    BY <2>1, HermGates, GateCallStep
  <2>2. CASE Herm!HermesServes(g)
    <3>1. \E i, r : r \in Replies /\ Gw!Serves(g, i, r)
      BY <2>2, HermGates DEF Herm!HermesServes, Replies
    <3> QED
      BY <3>1, GateCallStep
  <2>3. CASE Herm!HermesBreaks(g)
    BY <2>3, HermGates, GateCallStep DEF Herm!HermesBreaks
  <2> QED
    BY <1>6, <2>1, <2>2, <2>3
<1>7. ASSUME NEW g \in DOMAIN gateways, Herm!SessionInfo(g) \/ Herm!HermesFrame(g)
      PROVE  CallStep
  <2>1. call' = call /\ posted' = posted /\ Spend("frame")
    BY <1>7, Spends DEF Herm!SessionInfo, Herm!HermesFrame
  <2> QED
    BY <2>1, RestMoves DEF Pays, PostedMoves, Purses
<1>8. ASSUME NEW g \in DOMAIN gateways, Herm!HermesDials(g)
      PROVE  CallStep
  <2>1. CallMoves
    BY <1>8 DEF Herm!HermesDials, Herm!Drops, Herm!Reply, CallMoves, Replies
  <2>2. Pays /\ PostedMoves
    BY <1>8, Spends DEF Herm!HermesDials, Pays, PostedMoves, Purses
  <2> QED
    BY <2>1, <2>2 DEF CallStep
<1> QED
  BY <1>1, <1>2, <1>3, <1>4, <1>5, <1>6, <1>7, <1>8
  DEF Herm!HermesNext, Herm!HermesCallStep, Herm!HermesTaskStep

-----------------------------------------------------------------------------
TypeInv ==
  /\ CallTypes /\ SeenTypes
  /\ kind \in DOMAIN Bounds
  /\ kind \notin {"openclaw", "hermes"} => gateways = <<>> /\ gateway = 0
  /\ subscribed \subseteq Session
  /\ Code!CodeTypeOK /\ Xxm!XxmTypeOK /\ Line!CliTypeOK

LEMMA TypeInvTypes == AdapterInv /\ TypeInv => TypeOK
<1> SUFFICES ASSUME AdapterInv, TypeInv PROVE TypeOK
  OBVIOUS
<1>1. Herm!GatewayTypeOK
  <2>1. CASE kind \in {"openclaw", "hermes"}
    BY <2>1, GatesTyped DEF AdapterInv, ClawInv, HermInv
  <2>2. CASE kind \notin {"openclaw", "hermes"}
    BY <2>2 DEF TypeInv, Herm!GatewayTypeOK
  <2> QED
    BY <2>1, <2>2
<1>2. CallsTypeOK
  BY CallsTyped DEF AdapterInv, TypeInv
<1> QED
  BY <1>1, <1>2 DEF TypeInv, TypeOK, Herm!HermesTypeOK

LEMMA TypeInvInit == Init => TypeInv
<1> SUFFICES ASSUME Init PROVE TypeInv
  OBVIOUS
<1>1. CallTypes /\ SeenTypes
  <2>1. call = NewCall("none", None, 0, "idle") /\ posted = <<>> /\ line = "closed" /\ greeted = FALSE /\ drawn = {}
    BY DEF Init, CallsInit, NoCall
  <2>2. call \in CallRecord
    BY <2>1 DEF NewCall, CallRecord, Op, Steps, Replies
  <2>3. bound \in [Purses -> Nat]
    BY BackendAssumption DEF Init, Purses
  <2>4. \A i \in DOMAIN posted : posted[i] # 0
    BY <2>1
  <2>5. CallTypes
    BY <2>2, <2>3, <2>4 DEF CallTypes
  <2>6. SeenTypes
    BY <2>1 DEF SeenTypes
  <2> QED
    BY <2>5, <2>6
<1>2. kind \in DOMAIN Bounds /\ gateways = <<>> /\ gateway = 0 /\ subscribed \subseteq Session
  BY DEF Init, Herm!HermesInit, Herm!GatewayInit
<1>3. Code!CodeTypeOK
  <2>1. CodeTypes /\ streams = <<>> /\ configured = FALSE
        /\ missed \in BOOLEAN /\ bubble \in Seq(1 .. ReplyLength)
    <3>1. /\ streams = <<>> /\ configured = FALSE
          /\ missed \in BOOLEAN /\ bubble \in Seq(1 .. ReplyLength)
      BY EmptySeq DEF Init, Code!CodeInit
    <3>2. call.session = None /\ None \in Anyone
      BY DEF Init, CallsInit, NoCall, NewCall, Anyone
    <3>3. /\ shared = Code!Cleared /\ turn = [session |-> None, said |-> 0, told |-> 0]
          /\ questions = {} /\ asked = Code!Nobody /\ answers = Code!Nobody
      BY DEF Init, Code!CodeInit, Code!NoTurn
    <3>4. CodeTypes
      BY <3>2, <3>3, BackendAssumption DEF CodeTypes, Code!Cleared, Code!Nobody, Anyone, Code!Turn
    <3> QED
      BY <3>1, <3>4
  <2>2. streams \in Seq(Code!Stream)
    BY <2>1
  <2>3. configured \in BOOLEAN
    BY <2>1
  <2> QED
    BY <2>1, <2>2, <2>3 DEF CodeTypes, Code!CodeTypeOK, Anyone
<1>4. Xxm!XxmTypeOK
  <2>1. /\ events = 0 /\ active = None /\ loaded = {} /\ readOnly = {}
        /\ continued = [s \in Session |-> 0] /\ copies = [s \in Session |-> 0]
        /\ turns = <<>> /\ running = [s \in Session |-> 0]
    BY DEF Init, Xxm!XxmInit
  <2> QED
    BY <2>1 DEF Xxm!XxmTypeOK
<1>5. Line!CliTypeOK
  <2>1. /\ events = 0 /\ reader = 0 /\ live = None /\ process = <<>> /\ inner = 0 /\ stops = 0
        /\ output = <<>> /\ inHand = Line!Nothing /\ argument = None /\ misnamed = FALSE
        /\ opened = None /\ heard = {}
    BY DEF Init, Line!CliInit
  <2>2. \A S : <<>> \in Seq(S) /\ Len(<<>>) = 0
    BY EmptySeq
  <2>3. inner = 0 /\ Len(process) = 0
    BY <2>1, <2>2, Zenon
  <2>4. inner \in 0 .. Len(process)
    BY <2>3
  <2>5. /\ process \in Seq([session : Session, reader : Nat, alive : BOOLEAN, signalled : BOOLEAN])
        /\ output \in Seq([from : Nat, what : {"line", "system", "question", "exit"}])
    BY <2>1, <2>2, Zenon
  <2>6. misnamed \in BOOLEAN /\ events \in Nat /\ reader \in Nat /\ stops \in Nat
    BY <2>1
  <2> QED
    BY <2>1, <2>4, <2>5, <2>6 DEF Line!CliTypeOK
<1> QED
  BY <1>1, <1>2, <1>3, <1>4, <1>5 DEF TypeInv

(* What an adapter leaves alone stays typed.                                *)
LEMMA OthersTyped ==
  ASSUME TypeInv
  PROVE  /\ UNCHANGED codeVars => Code!CodeTypeOK'
         /\ UNCHANGED xxmVars /\ events' \in Nat => Xxm!XxmTypeOK'
         /\ UNCHANGED lineVars /\ events' \in Nat => Line!CliTypeOK'
<1>1. UNCHANGED codeVars => Code!CodeTypeOK'
  BY DEF TypeInv, Code!CodeTypeOK
<1>2. UNCHANGED xxmVars /\ events' \in Nat => Xxm!XxmTypeOK'
  BY DEF TypeInv, Xxm!XxmTypeOK
<1>3. UNCHANGED lineVars /\ events' \in Nat => Line!CliTypeOK'
  BY DEF TypeInv, Line!CliTypeOK, lineVars, Line!Nothing
<1> QED
  BY <1>1, <1>2, <1>3

LEMMA TypeInvNext ==
  AdapterInv /\ AdapterInv' /\ OwnInv /\ OwnInv' /\ TypeInv /\ [Next]_vars => TypeInv'
<1> SUFFICES ASSUME AdapterInv, AdapterInv', OwnInv, OwnInv', TypeInv, [Next]_vars
             PROVE  TypeInv'
  OBVIOUS
<1>1. SeenTypes'
  <2>1. CallInv /\ SeenTypes /\ ContractStep
    BY AdapterStep DEF AdapterInv, TypeInv
  <2> QED
    BY <2>1, SeenStep
<1>2. CallInv /\ CallTypes /\ CallInv' /\ events \in Nat /\ subscribed \subseteq Session
  BY DEF AdapterInv, TypeInv, Xxm!XxmTypeOK
<1>3. ASSUME CallStep PROVE CallTypes'
  BY <1>2, <1>3, CallTyped
<1>4. CASE /\ kind \in {"openclaw", "hermes"} /\ kind' = kind /\ CallStep
           /\ subscribed' \subseteq Session
           /\ UNCHANGED <<codeVars, xxmVars, lineVars, events>>
  BY <1>1, <1>2, <1>3, <1>4, OthersTyped DEF TypeInv
<1>5. CASE kind = "openclaw" /\ Claw!OpenClawNext /\ UNCHANGED <<kind, subscribed, codeVars, xxmVars, lineVars, events>>
  BY <1>2, <1>4, <1>5, ClawCallStep
<1>6. CASE kind = "hermes" /\ Herm!HermesNext /\ UNCHANGED <<kind, codeVars, xxmVars, lineVars, events>>
  <2>1. subscribed' \subseteq Session
    BY <1>6 DEF AdapterInv, HermInv, HermAsked, CallInv
  <2> QED
    BY <1>2, <1>4, <1>6, <2>1, HermCallStep
<1>7. CASE kind = "opencode" /\ Code!OpenCodeNext
           /\ UNCHANGED <<kind, clawVars, subscribed, xxmVars, lineVars, events>>
  <2>1. CodeInv' /\ CodeOwnInv' /\ configured \in BOOLEAN
    BY <1>7 DEF AdapterInv, OwnInv, TypeInv, Code!CodeTypeOK
  <2>2. Code!CodeTypeOK'
    BY <1>7, <2>1, CodeTyped
  <2> QED
    BY <1>1, <1>2, <1>3, <1>7, <2>2, OthersTyped, CodeCallStep DEF TypeInv
<1>8. CASE kind = "xuexiaomi" /\ Xxm!XueXiaoMiNext
           /\ UNCHANGED <<kind, clawVars, subscribed, codeVars, lineVars>>
  <2>1. XxmInv /\ XxmInv' /\ XxmOwnInv /\ XxmOwnInv' /\ Xxm!XxmTypeOK
    BY <1>8 DEF AdapterInv, OwnInv, TypeInv
  <2>2. Xxm!XxmTypeOK' /\ events' \in Nat
    BY <1>2, <1>8, <2>1, XxmTyped DEF Xxm!XxmTypeOK
  <2> QED
    BY <1>1, <1>2, <1>3, <1>8, <2>2, OthersTyped, XxmCallStep DEF TypeInv
<1>9. CASE kind \in Local /\ Line!CliNext /\ UNCHANGED <<clawVars, subscribed, codeVars, xxmVars>>
  <2>1. kind' = kind
    BY <1>9, CliKeepsKind
  <2>2. LineOwnInv /\ LineOwnInv' /\ Line!CliTypeOK
    BY <1>9, <2>1 DEF AdapterInv, OwnInv, TypeInv
  <2>3. Line!CliTypeOK'
    BY <1>2, <1>9, <2>2, LineTyped
  <2>4. events' \in Nat
    BY <2>3 DEF Line!CliTypeOK
  <2>5. CallStep
    BY <1>2, <1>9, <2>2, LineCallStep
  <2>6. kind \notin {"openclaw", "hermes"}
    BY <1>9 DEF Local
  <2> QED
    BY <1>1, <1>2, <1>3, <1>9, <2>1, <2>3, <2>4, <2>5, <2>6, OthersTyped DEF TypeInv
<1>10. CASE UNCHANGED vars
  <2>1. UNCHANGED <<call, channel, line, greeted, scope, drawn, posted, submits, bound, kind, subscribed,
                    gateways, gateway, events>>
        /\ UNCHANGED codeVars /\ UNCHANGED xxmVars /\ UNCHANGED lineVars
    BY <1>10 DEF vars
  <2>2. CallTypes' /\ SeenTypes'
    BY <2>1 DEF TypeInv, CallTypes, SeenTypes
  <2> QED
    BY <1>2, <2>1, <2>2, OthersTyped DEF TypeInv
<1> QED
  BY <1>5, <1>6, <1>7, <1>8, <1>9, <1>10 DEF Next

(* The types of a Backend and of whichever adapter it is: the call, what    *)
(* the frontend sees, the gateways and their queues, the streams and turns, *)
(* the processes and what they wrote.                                       *)
THEOREM AdaptersTypeCorrect == Spec => []TypeOK
<1>1. Init => AdapterInv /\ TypeInv
  BY AdapterInit, TypeInvInit
<1>2. AdapterInv /\ [Next]_vars => AdapterInv'
  BY AdapterStep
<1> QED
  BY <1>1, <1>2, OwnInvInit, OwnInvNext, TypeInvNext, TypeInvTypes, PTL DEF Spec
=============================================================================
