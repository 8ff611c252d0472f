---------------------------- MODULE GoodsOutProof ----------------------------
(***************************************************************************)
(* What TLAPS proves of GoodsOut for any goods, any pick sheet and any      *)
(* number of requests under way: its type invariant, that the list is of   *)
(* the sheet, that a deletion hits the goods chosen and that what is sent   *)
(* has what was confirmed.                                                 *)
(*                                                                         *)
(* SheetInv follows goods that were found from the answer to the list,      *)
(* OutInv follows the list confirmed to the list sent.                      *)
(***************************************************************************)
EXTENDS GoodsOut, FiniteSetTheorems, SequenceTheorems, TLAPS

-----------------------------------------------------------------------------
(* Sequences *)

\* s is a prefix of t
Prefix(s, t) == Len(s) <= Len(t) /\ \A i \in 1 .. Len(s) : s[i] = t[i]

LEMMA PrefixIsPrefix ==
    ASSUME NEW S, NEW s \in Seq(S), NEW t \in Seq(S), Prefix(s, t)
    PROVE  IsPrefix(s, t)
  BY DEF Prefix, IsPrefix

Distinct(s) == \A i, j \in DOMAIN s : s[i] = s[j] => i = j

LEMMA DistinctCardinality ==
    ASSUME NEW S, NEW s \in Seq(S), Distinct(s)
    PROVE  Cardinality(ToSet(s)) = Len(s)
  <1>1. DOMAIN s = 1 .. Len(s) /\ Len(s) \in Nat
    OBVIOUS
  <1>2. IsFiniteSet(1 .. Len(s)) /\ Cardinality(1 .. Len(s)) = Len(s)
    BY <1>1, FS_Interval
  <1>3. s \in Surjection(1 .. Len(s), ToSet(s))
    BY <1>1 DEF Surjection, ToSet
  <1>4. s \in Injection(1 .. Len(s), ToSet(s))
    BY <1>1 DEF Injection, IsInjective, ToSet, Distinct
  <1> QED
    BY <1>2, <1>3, <1>4, FS_Surjection

LEMMA RemoveAtProperties ==
    ASSUME NEW S, NEW s \in Seq(S), NEW p \in DOMAIN s
    PROVE  /\ RemoveAt(s, p) \in Seq(S)
           /\ ToSet(RemoveAt(s, p)) \subseteq ToSet(s)
           /\ Distinct(s) => Distinct(RemoveAt(s, p))
  <1> DEFINE r == RemoveAt(s, p)
             at(i) == IF i < p THEN i ELSE i + 1
             a == SubSeq(s, 1, p - 1)
             b == SubSeq(s, p + 1, Len(s))
  <1>a. /\ a \in Seq(S) /\ Len(a) = p - 1
        /\ \A i \in 1 .. p - 1 : a[i] = s[i]
    BY SubSeqProperties
  <1>b. /\ b \in Seq(S) /\ Len(b) = Len(s) - p
        /\ \A i \in 1 .. Len(s) - p : b[i] = s[p + i]
    BY SubSeqProperties
  <1>c. r = a \o b
    BY DEF RemoveAt
  <1>d. /\ r \in Seq(S) /\ Len(r) = Len(s) - 1
        /\ \A i \in 1 .. Len(r) : r[i] = IF i <= p - 1 THEN a[i] ELSE b[i - (p - 1)]
    <2> HIDE DEF a, b, r
    <2> QED
      BY <1>a, <1>b, <1>c, ConcatProperties
  <1>1. /\ r \in Seq(S) /\ Len(r) = Len(s) - 1
        /\ \A i \in 1 .. Len(r) : at(i) \in DOMAIN s /\ r[i] = s[at(i)]
    <2> HIDE DEF a, b, r
    <2>1. ASSUME NEW i \in 1 .. Len(r), i < p PROVE at(i) \in DOMAIN s /\ r[i] = s[at(i)]
      BY <1>a, <1>d, <2>1
    <2>2. ASSUME NEW i \in 1 .. Len(r), ~(i < p) PROVE at(i) \in DOMAIN s /\ r[i] = s[at(i)]
      <3>1. i - (p - 1) \in 1 .. Len(s) - p /\ ~(i <= p - 1) /\ p + (i - (p - 1)) = i + 1
        BY <1>d, <2>2
      <3>2. r[i] = s[i + 1]
        BY <1>b, <1>d, <3>1
      <3> QED
        BY <1>d, <2>2, <3>2
    <2> QED
      BY <1>d, <2>1, <2>2
  <1>2. ToSet(r) \subseteq ToSet(s)
    <2> HIDE DEF r
    <2> QED
      BY <1>1, SMTT(30) DEF ToSet
  <1>3. Distinct(s) => Distinct(r)
    <2> HIDE DEF r
    <2>1. \A i, j \in 1 .. Len(r) : at(i) = at(j) => i = j
      BY <1>1
    <2> QED
      BY <1>1, <2>1, SMTT(30) DEF Distinct
  <1> QED
    BY <1>1, <1>2, <1>3

LEMMA AppendFacts ==
    ASSUME NEW S, NEW s \in Seq(S), NEW e \in S
    PROVE  /\ Append(s, e) \in Seq(S)
           /\ ToSet(Append(s, e)) = ToSet(s) \union {e}
           /\ e \notin ToSet(s) /\ Distinct(s) => Distinct(Append(s, e))
           /\ Prefix(s, Append(s, e))
  <1> DEFINE r == Append(s, e)
  <1>1. /\ r \in Seq(S) /\ Len(r) = Len(s) + 1 /\ r[Len(r)] = e
        /\ \A i \in 1 .. Len(s) : r[i] = s[i]
        /\ DOMAIN s = 1 .. Len(s) /\ DOMAIN r = 1 .. Len(s) + 1
    OBVIOUS
  <1>2. ToSet(r) = ToSet(s) \union {e}
    BY <1>1 DEF ToSet
  <1>3. e \notin ToSet(s) /\ Distinct(s) => Distinct(r)
    BY <1>1 DEF Distinct, ToSet
  <1>4. Prefix(s, r)
    BY <1>1 DEF Prefix
  <1> QED
    BY <1>1, <1>2, <1>3, <1>4

-----------------------------------------------------------------------------
(* The inductive invariant *)

\* answers that find goods of the sheet only
SheetAnswers == {a \in Answers : a.kind = "scan" /\ a.found => a.goods \in Rows}
SheetMessages == {Return(a) : a \in SheetAnswers} \union {Delivery(k) : k \in Kinds}

SheetInv ==
    /\ goodsList \subseteq Rows
    /\ queue \in Seq(SheetMessages)
    /\ posted \in [Kinds -> SheetAnswers \union {Nothing}]
    /\ kept.goods \in {<<>>} \union {<<g>> : g \in Rows}
    /\ Listed \subseteq Rows /\ Distinct(data)

\* While outStore reads the list, what it has read is the list's beginning, and the list
\* still begins with what was confirmed, unless goods were deleted.
OutInv ==
    /\ out.stage = "start" => out.rows = <<>> /\ ~out.changed
    /\ out.stage \in {"start", "build"} /\ out.confirmed # <<>> => Prefix(out.confirmed, data)
    /\ out.stage = "build" /\ (out.confirmed # <<>> \/ ~out.changed) => Prefix(out.rows, data)
    /\ out.stage = "sent" => Prefix(out.confirmed, out.rows)

IInv == TypeOK /\ SheetInv /\ OutInv /\ DeleteHitsChosen

-----------------------------------------------------------------------------
(* Every action keeps the invariant *)

LEMMA InitInv == Init => IInv
  <1> SUFFICES ASSUME Init PROVE IInv
    OBVIOUS
  <1> USE DEF Init
  <1>1. out \in OutRequests
    BY DEF NoOut, OutRequests
  <1>2. TypeOK
    BY <1>1 DEF TypeOK, NoDialog, NothingPosted, NothingKept
  <1>3. SheetInv
    BY DEF SheetInv, Listed, ToSet, Distinct, NothingPosted, NothingKept
  <1>4. OutInv
    BY DEF OutInv, NoOut
  <1>5. DeleteHitsChosen
    BY DEF DeleteHitsChosen, NoDialog
  <1> QED
    BY <1>2, <1>3, <1>4, <1>5 DEF IInv

\* an answer that is queued
LEMMA AnswerQueued ==
    ASSUME TypeOK, SheetInv, NEW a \in SheetAnswers, Answer(a)
    PROVE  queue' \in Seq(SheetMessages)
  BY DEF Answer, SheetInv, SheetMessages

\* messages of the sheet are messages
LEMMA MessagesTyped ==
    ASSUME NEW q \in Seq(SheetMessages)
    PROVE  q \in Seq(Messages)
  BY DEF SheetMessages, SheetAnswers, Messages

\* the parts of the request to take out
LEMMA OutParts ==
    ASSUME out \in OutRequests
    PROVE  /\ out.stage \in {"none", "start", "build", "sent"} /\ out.changed \in BOOLEAN
           /\ out.rows \in Seq(Goods) /\ out.confirmed \in Seq(Goods)
           /\ out = [stage |-> out.stage, rows |-> out.rows, confirmed |-> out.confirmed,
                     changed |-> out.changed]
  BY DEF OutRequests

\* what a change of the list does to it
LEMMA ChangedParts ==
    ASSUME out \in OutRequests, NEW removal \in BOOLEAN, Changed(removal)
    PROVE  /\ out' \in OutRequests
           /\ out'.stage = out.stage /\ out'.rows = out.rows
           /\ out'.confirmed = IF removal THEN <<>> ELSE out.confirmed
           /\ out'.changed = (out.changed \/ out.stage = "build")
  <1> DEFINE c == out.changed \/ out.stage = "build"
             n == IF removal THEN <<>> ELSE out.confirmed
  <1>1. c \in BOOLEAN /\ n \in Seq(Goods)
    BY DEF OutRequests
  <1>2. out' = [[out EXCEPT !.changed = c] EXCEPT !.confirmed = n]
    BY DEF Changed
  <1> HIDE DEF c, n
  <1>3. out' = [stage |-> out.stage, rows |-> out.rows, confirmed |-> n, changed |-> c]
    BY <1>1, <1>2 DEF OutRequests
  <1>4. /\ out' \in OutRequests
        /\ out'.stage = out.stage /\ out'.rows = out.rows /\ out'.confirmed = n /\ out'.changed = c
    BY <1>1, <1>3 DEF OutRequests
  <1> QED
    BY <1>4 DEF c, n

LEMMA UserInv == ASSUME IInv, User PROVE IInv'
  <1> USE DEF IInv
  <1>1. CASE DismissWaiting
    BY <1>1, ZenonT(40) DEF DismissWaiting, TypeOK, SheetInv, OutInv, DeleteHitsChosen, requests, liveData,
                Listed
  <1>2. CASE DoOutStore
    BY <1>2 DEF DoOutStore, TypeOK, SheetInv, OutInv, DeleteHitsChosen, requests, liveData, Listed
  <1>3. CASE Cancel
    BY <1>3 DEF Cancel, NoDialog, TypeOK, SheetInv, OutInv, DeleteHitsChosen, requests, liveData,
                Listed
  <1>4. CASE ConfirmDelete
    <2> USE <1>4 DEF ConfirmDelete
    <2>1. data \in Seq(Goods) /\ confirm.at \in DOMAIN data
      BY DEF TypeOK
    <2>2. /\ data' \in Seq(Goods) /\ ToSet(data') \subseteq ToSet(data)
          /\ Distinct(data) => Distinct(data')
      BY <2>1, RemoveAtProperties
    <2>3. /\ out' \in OutRequests
          /\ out'.stage = out.stage /\ out'.rows = out.rows /\ out'.confirmed = <<>>
          /\ out'.changed = (out.changed \/ out.stage = "build")
      BY ChangedParts DEF TypeOK
    <2>4. TypeOK'
      BY <2>2, <2>3 DEF TypeOK, NoDialog, liveData
    <2>5. SheetInv'
      BY <2>2 DEF SheetInv, Listed, liveData
    <2>6. OutInv'
      <3>1. /\ out.stage \in {"none", "start", "build", "sent"}
            /\ out.stage = "start" => out.rows = <<>> /\ ~out.changed
        BY OutParts DEF OutInv, TypeOK
      <3>2. \A s \in Seq(Goods) : Prefix(<<>>, s)
        BY DEF Prefix
      <3> QED
        BY <2>3, <3>1, <3>2, OutParts DEF OutInv, TypeOK
    <2>7. DeleteHitsChosen'
      BY DEF DeleteHitsChosen, NoDialog
    <2> QED
      BY <2>4, <2>5, <2>6, <2>7
  <1>5. CASE ConfirmOut
    <2> USE <1>5 DEF ConfirmOut
    <2>1. out' = [stage |-> "start", rows |-> <<>>, confirmed |-> data, changed |-> FALSE]
      BY DEF NoOut
    <2>a. data \in Seq(Goods) /\ out' \in OutRequests
      BY <2>1 DEF TypeOK, OutRequests
    <2>2. TypeOK'
      BY <2>a DEF TypeOK, NoDialog, liveData
    <2>3. SheetInv'
      BY DEF SheetInv, Listed, liveData
    <2>4. OutInv'
      <3>1. Prefix(data, data)
        BY <2>a DEF Prefix
      <3>2. /\ out'.stage = "start" /\ out'.rows = <<>> /\ out'.confirmed = data
            /\ out'.changed = FALSE
        BY <2>1 DEF NoOut
      <3>3. data' = data
        OBVIOUS
      <3> QED
        BY <3>1, <3>2, <3>3 DEF OutInv
    <2>5. DeleteHitsChosen'
      BY DEF DeleteHitsChosen, NoDialog
    <2> QED
      BY <2>2, <2>3, <2>4, <2>5
  <1>6. ASSUME NEW g \in Goods, OnScanResult(g) PROVE IInv'
    BY <1>6 DEF OnScanResult, TypeOK, SheetInv, OutInv, DeleteHitsChosen, requests, liveData, Listed
  <1>7. ASSUME NEW p \in DOMAIN data, DoDelGoods(p) PROVE IInv'
    <2>1. p \in Nat \ {0} /\ data[p] \in Goods
      BY DEF TypeOK
    <2> QED
      BY <1>7, <2>1
         DEF DoDelGoods, TypeOK, SheetInv, OutInv, DeleteHitsChosen, requests, liveData, Listed
  <1> QED
    BY <1>1, <1>2, <1>3, <1>4, <1>5, <1>6, <1>7 DEF User

\* the answers there are, each with what the invariant knows of it
LEMMA AnswersOfSheet ==
    /\ ListAnswer \in SheetAnswers /\ Failure \in SheetAnswers
    /\ \A b \in BOOLEAN : OutAnswer(b) \in SheetAnswers
    /\ \A g \in Goods, b \in BOOLEAN :
         (b => g \in Rows) => ScanAnswer(g, b) \in SheetAnswers
  <1>1. ListAnswer \in SheetAnswers /\ Failure \in SheetAnswers
    BY DEF SheetAnswers, Answers, ListAnswer, Failure
  <1>2. ASSUME NEW b \in BOOLEAN PROVE OutAnswer(b) \in SheetAnswers
    <2>1. OutAnswer(b) \in Answers
      BY DEF Answers
    <2> QED
      BY <2>1 DEF SheetAnswers, OutAnswer
  <1>3. ASSUME NEW g \in Goods, NEW b \in BOOLEAN, b => g \in Rows
        PROVE  ScanAnswer(g, b) \in SheetAnswers
    <2>1. ScanAnswer(g, b) \in Answers
      BY DEF Answers
    <2>2. ScanAnswer(g, b).goods = g /\ ScanAnswer(g, b).found = b
      BY DEF ScanAnswer
    <2> QED
      BY <1>3, <2>1, <2>2 DEF SheetAnswers
  <1> QED
    BY <1>1, <1>2, <1>3

LEMMA SheetAnswerParts ==
    ASSUME NEW a \in SheetAnswers
    PROVE  /\ a \in Answers /\ a.kind \in Kinds
           /\ a.kind = "scan" => a.goods \in Goods /\ a.found \in BOOLEAN
           /\ a.kind = "scan" /\ a.found => a.goods \in Rows
           /\ a.kind = "out" => a.success \in BOOLEAN
  BY DEF SheetAnswers, Answers, ListAnswer, Failure, OutAnswer, ScanAnswer, Kinds

\* a request is answered: nothing but its count and the queue changes
LEMMA AnsweredInv ==
    ASSUME IInv, NEW a \in SheetAnswers, Answer(a),
           listing' \in Nat, scanning' \in [Goods -> Nat],
           UNCHANGED <<goodsList, data, waiting, confirm, page, out, liveData>>
    PROVE  IInv'
  <1>1. queue' \in Seq(SheetMessages) /\ queue' \in Seq(Messages)
    BY AnswerQueued, MessagesTyped DEF IInv
  <1> QED
    BY <1>1 DEF IInv, TypeOK, SheetInv, OutInv, DeleteHitsChosen, liveData, Listed

LEMMA OutStoreInv == ASSUME IInv, OutStore PROVE IInv'
  <1>1. /\ UNCHANGED <<goodsList, data, waiting, confirm, page, listing, scanning, posted, kept>>
        /\ data \in Seq(Goods)
    BY DEF OutStore, liveData, IInv, TypeOK
  <1>2. ASSUME out' \in OutRequests, OutInv', queue' \in Seq(SheetMessages) PROVE IInv'
    BY <1>1, <1>2, MessagesTyped DEF IInv, TypeOK, SheetInv, DeleteHitsChosen, Listed
  <1>3. out \in OutRequests /\ queue \in Seq(SheetMessages)
    BY DEF IInv, TypeOK, SheetInv
  <1>4. CASE out.stage = "start" /\ out' = [out EXCEPT !.stage = "build"] /\ UNCHANGED queue
    <2>1. out' = [stage |-> "build", rows |-> out.rows, confirmed |-> out.confirmed,
                  changed |-> out.changed]
      BY <1>3, <1>4 DEF OutRequests
    <2>2. out' \in OutRequests
      BY <1>3, <2>1, OutParts DEF OutRequests
    <2>3. /\ out'.stage = "build" /\ out'.rows = <<>> /\ out'.confirmed = out.confirmed
      BY <1>4, <2>1 DEF IInv, OutInv
    <2>4. Prefix(<<>>, data)
      BY <1>1 DEF Prefix
    <2>5. OutInv'
      BY <1>1, <1>4, <2>3, <2>4 DEF IInv, OutInv
    <2> QED
      BY <1>2, <1>3, <1>4, <2>2, <2>5
  <1>5. CASE /\ out.stage = "build" /\ HasNext /\ ~out.changed
             /\ out' = [out EXCEPT !.rows = Append(@, data[Len(@) + 1])] /\ UNCHANGED queue
    <2> DEFINE n == Append(out.rows, data[Len(out.rows) + 1])
    <2>1. /\ out.rows \in Seq(Goods) /\ Prefix(out.rows, data) /\ Len(out.rows) # Len(data)
      BY <1>3, <1>5, OutParts DEF IInv, OutInv, HasNext
    <2>2. Len(out.rows) + 1 \in 1 .. Len(data) /\ data[Len(out.rows) + 1] \in Goods
      BY <1>1, <2>1 DEF Prefix
    <2>3. n \in Seq(Goods) /\ Prefix(n, data)
      BY <1>1, <2>1, <2>2 DEF Prefix
    <2>4. out' = [out EXCEPT !.rows = n]
      BY <1>5
    <2> HIDE DEF n
    <2>5. out' = [stage |-> out.stage, rows |-> n, confirmed |-> out.confirmed,
                  changed |-> out.changed]
      BY <1>3, <2>4 DEF OutRequests
    <2>6. out' \in OutRequests
      BY <1>3, <2>3, <2>5, OutParts DEF OutRequests
    <2>7. out'.stage = "build" /\ out'.rows = n /\ out'.confirmed = out.confirmed
      BY <1>5, <2>5
    <2>8. OutInv'
      BY <1>1, <1>5, <2>3, <2>7 DEF IInv, OutInv
    <2> QED
      BY <1>2, <1>3, <1>5, <2>6, <2>8
  <1>6. ASSUME out' = NoOut PROVE out' \in OutRequests /\ OutInv'
    BY <1>6 DEF NoOut, OutRequests, OutInv
  <1>7. CASE out' = NoOut /\ Answer(Failure)
    BY <1>2, <1>6, <1>7, AnswersOfSheet, AnswerQueued DEF IInv
  <1>8. CASE /\ out.stage = "build" /\ ~HasNext
             /\ out' = [out EXCEPT !.stage = "sent"] /\ UNCHANGED queue
    <2>1. out' = [stage |-> "sent", rows |-> out.rows, confirmed |-> out.confirmed,
                  changed |-> out.changed]
      BY <1>3, <1>8 DEF OutRequests
    <2>2. out' \in OutRequests
      BY <1>3, <2>1, OutParts DEF OutRequests
    <2>3. out'.stage = "sent" /\ out'.rows = out.rows /\ out'.confirmed = out.confirmed
      BY <2>1
    <2>4. ASSUME out.confirmed = <<>> PROVE OutInv'
      BY <1>3, <2>3, <2>4, OutParts DEF OutInv, Prefix
    <2>5. ASSUME out.confirmed # <<>> PROVE OutInv'
      <3>1. /\ Prefix(out.confirmed, data) /\ Prefix(out.rows, data)
            /\ Len(out.rows) = Len(data)
        BY <1>8, <2>5 DEF IInv, OutInv, HasNext
      <3>2. out.confirmed \in Seq(Goods) /\ out.rows \in Seq(Goods)
        BY <1>3, OutParts
      <3>3. Prefix(out.confirmed, out.rows)
        BY <1>1, <3>1, <3>2 DEF Prefix
      <3> QED
        BY <2>3, <3>3 DEF OutInv
    <2> QED
      BY <1>2, <1>3, <1>8, <2>2, <2>4, <2>5 DEF IInv, OutInv
  <1>9. CASE out' = NoOut /\ \E success \in BOOLEAN : Answer(OutAnswer(success))
    BY <1>2, <1>6, <1>9, AnswersOfSheet, AnswerQueued DEF IInv
  <1> QED
    BY <1>4, <1>5, <1>7, <1>8, <1>9 DEF OutStore

LEMMA IOInv == ASSUME IInv, IO PROVE IInv'
  <1>1. CASE ListAnswered
    <2>1. listing' \in Nat /\ scanning' \in [Goods -> Nat]
      BY <1>1 DEF ListAnswered, IInv, TypeOK
    <2> QED
      BY <1>1, <2>1, AnswersOfSheet, AnsweredInv DEF ListAnswered
  <1>2. ASSUME NEW g \in Goods, ScanAnswered(g) PROVE IInv'
    <2>1. listing' \in Nat /\ scanning' \in [Goods -> Nat]
      BY <1>2 DEF ScanAnswered, IInv, TypeOK
    <2>2. ScanAnswer(g, g \in goodsList) \in SheetAnswers
      <3>1. CASE g \in goodsList
        <4>1. (g \in goodsList) = TRUE /\ g \in Rows
          BY <3>1 DEF IInv, SheetInv
        <4> QED
          BY <4>1, AnswersOfSheet
      <3>2. CASE g \notin goodsList
        <4>1. (g \in goodsList) = FALSE
          BY <3>2
        <4> QED
          BY <4>1, AnswersOfSheet
      <3> QED
        BY <3>1, <3>2
    <2> QED
      BY <1>2, <2>1, <2>2, AnswersOfSheet, AnsweredInv DEF ScanAnswered
  <1> QED
    BY <1>1, <1>2, OutStoreInv DEF IO

\* the message at the head of the queue
LEMMA HeadOfSheet ==
    ASSUME SheetInv, queue # <<>>
    PROVE  /\ Tail(queue) \in Seq(SheetMessages)
           /\ ~Head(queue).deliver => Head(queue).answer \in SheetAnswers
           /\ Head(queue).deliver => Head(queue).kind \in Kinds
  <1>1. Head(queue) \in SheetMessages /\ Tail(queue) \in Seq(SheetMessages)
    BY DEF SheetInv
  <1>2. ASSUME NEW a \in SheetAnswers
        PROVE  Return(a).deliver = FALSE /\ Return(a).answer = a
    BY DEF Return
  <1>3. ASSUME NEW k \in Kinds
        PROVE  Delivery(k).deliver = TRUE /\ Delivery(k).kind = k
    BY DEF Delivery
  <1> QED
    BY <1>1, <1>2, <1>3 DEF SheetMessages

LEMMA OnReturnInv == ASSUME IInv, OnReturn PROVE IInv'
  <1> DEFINE a == Head(queue).answer
  <1>1. queue # <<>> /\ ~Head(queue).deliver
        /\ UNCHANGED <<data, waiting, confirm, page, listing, scanning, out, kept>>
    BY DEF OnReturn, requests
  <1>2. a \in SheetAnswers /\ Tail(queue) \in Seq(SheetMessages)
    BY <1>1, HeadOfSheet DEF IInv
  <1>3. posted' = [posted EXCEPT ![a.kind] = a]
    BY DEF OnReturn
  <1>4. queue' = IF posted[a.kind] = Nothing
                 THEN Append(Tail(queue), Delivery(a.kind)) ELSE Tail(queue)
    BY DEF OnReturn
  <1>5. goodsList' = Rows \/ goodsList' = goodsList
    BY DEF OnReturn
  <1> HIDE DEF a
  <1>6. a \in Answers /\ a.kind \in Kinds
    BY <1>2, SheetAnswerParts
  <1>7. queue' \in Seq(SheetMessages) /\ queue' \in Seq(Messages)
    <2>1. Delivery(a.kind) \in SheetMessages
      BY <1>6 DEF SheetMessages
    <2>2. Append(Tail(queue), Delivery(a.kind)) \in Seq(SheetMessages)
      BY <1>2, <2>1
    <2> QED
      BY <1>2, <1>4, <2>2, MessagesTyped
  <1>8. TypeOK'
    BY <1>1, <1>3, <1>5, <1>6, <1>7, GoodsAssumption DEF IInv, TypeOK
  <1>9. SheetInv'
    BY <1>1, <1>2, <1>3, <1>5, <1>7 DEF IInv, SheetInv, Listed
  <1>10. OutInv' /\ DeleteHitsChosen'
    BY <1>1 DEF IInv, OutInv, DeleteHitsChosen
  <1> QED
    BY <1>8, <1>9, <1>10 DEF IInv

\* goods of the sheet join the list
LEMMA AddOrReplaceInv ==
    ASSUME IInv, NEW g \in Rows, AddOrReplace(g), UNCHANGED confirm
    PROVE  /\ data' \in Seq(Goods) /\ ToSet(data') \subseteq Rows /\ Distinct(data')
           /\ out' \in OutRequests /\ OutInv' /\ DeleteHitsChosen'
  <1>1. /\ data \in Seq(Goods) /\ ToSet(data) \subseteq Rows /\ Distinct(data) /\ g \in Goods
        /\ out \in OutRequests
    BY GoodsAssumption DEF IInv, TypeOK, SheetInv, Listed
  <1>2. CASE g \in Listed
    BY <1>1, <1>2 DEF AddOrReplace, IInv, OutInv, DeleteHitsChosen
  <1>3. CASE g \notin Listed
    <2>1. data' = Append(data, g) /\ Changed(FALSE)
      BY <1>3 DEF AddOrReplace
    <2>2. /\ data' \in Seq(Goods) /\ ToSet(data') = ToSet(data) \union {g}
          /\ Distinct(data') /\ Prefix(data, data')
      BY <1>1, <1>3, <2>1, AppendFacts DEF Listed
    <2>3. /\ out' \in OutRequests
          /\ out'.stage = out.stage /\ out'.rows = out.rows /\ out'.confirmed = out.confirmed
          /\ out'.changed = (out.changed \/ out.stage = "build")
      BY <1>1, <2>1, ChangedParts
    <2>4. ASSUME NEW s \in Seq(Goods), Prefix(s, data) PROVE Prefix(s, data')
      BY <1>1, <2>2, <2>4 DEF Prefix
    <2>5. OutInv'
      BY <1>1, <2>3, <2>4, OutParts DEF IInv, OutInv
    <2>6. DeleteHitsChosen'
      BY <1>1, <2>2 DEF IInv, DeleteHitsChosen, Prefix
    <2> QED
      BY <1>1, <2>2, <2>3, <2>5, <2>6
  <1> QED
    BY <1>2, <1>3

LEMMA DeliverInv == ASSUME IInv, Deliver PROVE IInv'
  <1> DEFINE a == posted[Head(queue).kind]
  <1>1. queue # <<>> /\ Head(queue).deliver /\ queue' = Tail(queue)
        /\ waiting' = FALSE /\ UNCHANGED <<goodsList, confirm, listing, scanning>>
    BY DEF Deliver
  <1>2. posted' = [posted EXCEPT ![a.kind] = Nothing] /\ Keep(a)
        /\ IF a.kind = "scan" /\ a.found THEN AddOrReplace(a.goods) ELSE UNCHANGED <<data, out>>
    BY DEF Deliver
  <1>3. Head(queue).kind \in Kinds /\ Tail(queue) \in Seq(SheetMessages)
    BY <1>1, HeadOfSheet DEF IInv
  <1>4. a \in SheetAnswers \union {Nothing}
    BY <1>3 DEF IInv, SheetInv
  <1> HIDE DEF a
  <1>5. /\ a.kind = "scan" /\ a.found => a.goods \in Rows
        /\ a.kind = "out" => a.success \in BOOLEAN
    <2>1. Nothing.kind = "none"
      BY DEF Nothing
    <2> QED
      BY <1>4, <2>1, SheetAnswerParts
  <1>6. /\ data' \in Seq(Goods) /\ ToSet(data') \subseteq Rows /\ Distinct(data')
        /\ out' \in OutRequests /\ OutInv' /\ DeleteHitsChosen'
    <2>1. CASE a.kind = "scan" /\ a.found
      BY <1>1, <1>2, <1>5, <2>1, AddOrReplaceInv
    <2>2. CASE ~(a.kind = "scan" /\ a.found)
      <3>1. UNCHANGED <<data, out, confirm>>
        BY <1>1, <1>2, <2>2
      <3> QED
        BY <3>1 DEF IInv, TypeOK, SheetInv, Listed, OutInv, DeleteHitsChosen
    <2> QED
      BY <2>1, <2>2
  <1>7. /\ kept'.goods \in {<<>>} \union {<<g>> : g \in Rows}
        /\ kept' \in [some : BOOLEAN, goods : {<<>>} \union {<<g>> : g \in Goods},
                      success : BOOLEAN]
    <2> DEFINE gs == IF a.kind # "scan" THEN kept.goods ELSE IF a.found THEN <<a.goods>> ELSE <<>>
               su == IF a.kind # "out" THEN kept.success ELSE a.success
    <2>1. gs \in {<<>>} \union {<<g>> : g \in Rows} /\ su \in BOOLEAN
      BY <1>5 DEF IInv, TypeOK, SheetInv
    <2>2. kept' = [some |-> TRUE, goods |-> gs, success |-> su]
      BY <1>2 DEF Keep
    <2> HIDE DEF gs, su
    <2> QED
      BY <2>1, <2>2, GoodsAssumption
  <1>8. posted' \in [Kinds -> SheetAnswers \union {Nothing}]
        /\ posted' \in [Kinds -> Answers \union {Nothing}]
    BY <1>2 DEF IInv, TypeOK, SheetInv
  <1>9. queue' \in Seq(SheetMessages) /\ queue' \in Seq(Messages)
    BY <1>1, <1>3, MessagesTyped
  <1>10. TypeOK'
    <2>a. page' = page \/ page' = "success"
      BY DEF Deliver
    <2>1. page' \in {"list", "success"} /\ waiting' \in BOOLEAN
      BY <1>1, <2>a DEF IInv, TypeOK
    <2> QED
      BY <1>1, <1>6, <1>7, <1>8, <1>9, <2>1 DEF IInv, TypeOK
  <1>11. SheetInv'
    BY <1>1, <1>6, <1>7, <1>8, <1>9 DEF IInv, SheetInv, Listed
  <1> QED
    BY <1>6, <1>10, <1>11 DEF IInv

LEMMA RecreateInv == ASSUME IInv, RecreateGoods PROVE IInv'
  <1>1. /\ out.stage \in {"none", "sent"} /\ data' = kept.goods /\ confirm' = NoDialog
        /\ page' \in {"list", "success"} /\ listing' = listing + 1 /\ waiting' = ~kept.some
        /\ UNCHANGED <<goodsList, scanning, out, queue, posted, kept>>
    BY DEF RecreateGoods, liveData
  <1>2. /\ data' \in Seq(Goods) /\ ToSet(data') \subseteq Rows /\ Distinct(data')
    <2>1. CASE data' = <<>>
      BY <2>1 DEF ToSet, Distinct
    <2>2. ASSUME NEW g \in Rows, data' = <<g>>
          PROVE  data' \in Seq(Goods) /\ ToSet(data') \subseteq Rows /\ Distinct(data')
      <3>1. data' \in Seq(Goods) /\ DOMAIN data' = {1} /\ data'[1] = g
        BY <2>2, GoodsAssumption
      <3> QED
        BY <3>1 DEF ToSet, Distinct
    <2> QED
      BY <1>1, <2>1, <2>2 DEF IInv, SheetInv
  <1>3. TypeOK'
    BY <1>1, <1>2 DEF IInv, TypeOK, NoDialog
  <1>4. SheetInv'
    BY <1>1, <1>2 DEF IInv, SheetInv, Listed
  <1>5. OutInv' /\ DeleteHitsChosen'
    BY <1>1 DEF IInv, OutInv, DeleteHitsChosen, NoDialog
  <1> QED
    BY <1>3, <1>4, <1>5 DEF IInv

LEMMA NextInv == IInv /\ [Next]_vars => IInv'
  <1>1. ASSUME IInv, UNCHANGED vars PROVE IInv'
    BY <1>1 DEF vars, requests, liveData, IInv, TypeOK, SheetInv, OutInv, DeleteHitsChosen, Listed
  <1> QED
    BY <1>1, UserInv, IOInv, OnReturnInv, DeliverInv, RecreateInv DEF Next, Main

LEMMA Inductive == Spec => []IInv
  BY InitInv, NextInv, PTL DEF Spec

-----------------------------------------------------------------------------
(* The theorems *)

\* The type invariant.
THEOREM TypeCorrect == Spec => []TypeOK
  <1>1. IInv => TypeOK
    BY DEF IInv
  <1> QED
    BY <1>1, Inductive, PTL

\* The list has goods of the sheet only and each once, for any sheet, however many
\* requests overlap, and after the page was created anew any number of times.
THEOREM ListStaysOfSheet == Spec => []ListIsOfSheet
  <1>1. IInv => ListIsOfSheet
    BY DistinctCardinality DEF IInv, TypeOK, SheetInv, ListIsOfSheet, Listed
  <1> QED
    BY <1>1, Inductive, PTL

\* A deletion that is confirmed removes the goods it was asked for.
THEOREM DeletionHits == Spec => []DeleteHitsChosen
  <1>1. IInv => DeleteHitsChosen
    BY DEF IInv
  <1> QED
    BY <1>1, Inductive, PTL

\* What is sent begins with all that was confirmed, unless goods were deleted since.
THEOREM NothingConfirmedIsLost == Spec => []SentHasConfirmed
  <1>1. IInv => SentHasConfirmed
    BY OutParts, PrefixIsPrefix DEF IInv, TypeOK, OutInv, SentHasConfirmed
  <1> QED
    BY <1>1, Inductive, PTL

=============================================================================
