-------------------------- MODULE KycRecordsProofs --------------------------
(***************************************************************************)
(* Theorems about KycRecords for any number of users, calls and faults,    *)
(* where the file can be read and one tab at a time reviews a user: no     *)
(* save ever finds a record other than the one its call decided about.     *)
(***************************************************************************)
EXTENDS KycRecords, SequenceTheorems, FiniteSetTheorems, TLAPS

\* The decisions about one user come from one tab, and the file is readable.
OneReviewer ==
    /\ ~ReadsFail
    /\ \A c, d \in Calls :
         Kind[c] = "review" /\ Kind[d] = "review" /\ User[c] = User[d] => Tab[c] = Tab[d]

Statuses == {"NOT_SUBMITTED", "PENDING", "APPROVED", "REJECTED"}
Entry == {"SUBMITTED", "APPROVED", "REJECTED"} \X Nat
Record == [status : Statuses, version : Nat, images : SUBSET (Calls \X Documents),
           history : Seq(Entry)]
Pcs == {"new", "turn", "await", "read", "rejected", "store", "saving", "saved", "failed", "done"}

\* The history of a record is determined by its version and status: each
\* version is submitted, each but the last rejected, the last decided as shown.
Shape(r) ==
    /\ r.version = 0 <=> r.status = "NOT_SUBMITTED"
    /\ Len(r.history) = IF r.status = "PENDING" THEN 2 * r.version - 1 ELSE 2 * r.version
    /\ \A v \in 1 .. r.version : r.history[2 * v - 1] = <<"SUBMITTED", v>>
    /\ \A v \in 1 .. r.version : 2 * v <= Len(r.history) =>
         r.history[2 * v] = <<IF v = r.version THEN r.status ELSE "REJECTED", v>>

\* What a submission and a review make of the record they read.
Submitted(c, r) ==
    [status |-> "PENDING", version |-> r.version + 1, images |-> {c} \X Documents,
     history |-> Append(r.history, <<"SUBMITTED", r.version + 1>>)]
Reviewed(r, target) ==
    [r EXCEPT !.status = target, !.history = Append(@, <<target, r.version>>)]

Types ==
    /\ record \in [Users -> Record] /\ next \in [Calls -> Record]
    /\ disk \subseteq Calls \X Documents
    /\ queue \in Seq(Calls) /\ turns \in [Users -> Seq(Calls)]
    /\ pc \in [Calls -> Pcs] /\ awaits \in [Calls -> Calls \cup {NoCall}]
    /\ answer \in [Calls -> {"none", "ok", "refused", "unsaved", "unread", "lost"}]

\* A saving call is in the queue once; a call awaits only where it says so.
Queued ==
    /\ \A i, j \in DOMAIN queue : queue[i] = queue[j] => i = j
    /\ \A i \in DOMAIN queue : pc[queue[i]] = "saving"
    /\ \A c \in Calls : (pc[c] = "await") <=> (awaits[c] \in Calls)

\* Only a submission stores images, only a submission or a review saves.
KindOK ==
    \A c \in Calls :
        /\ pc[c] = "store" => Kind[c] = "submit"
        /\ pc[c] \in {"saving", "saved", "failed"} => Kind[c] # "check"

\* A user's submissions wait in turns, and the first of them is the one that runs.
TurnsOK ==
    /\ \A u \in Users : \A i, j \in DOMAIN turns[u] : turns[u][i] = turns[u][j] => i = j
    /\ \A u \in Users : \A i \in DOMAIN turns[u] :
         LET c == turns[u][i] IN
         Kind[c] = "submit" /\ User[c] = u /\ pc[c] \notin {"new", "done"}
    /\ \A c \in Calls :
         Kind[c] = "submit" /\ pc[c] \notin {"new", "done"}
            => \E i \in DOMAIN turns[User[c]] :
                 turns[User[c]][i] = c /\ (pc[c] # "turn" => i = 1)

\* The calls of a tab run one at a time.
TabsOK ==
    \A c, d \in Calls :
        Tab[c] = Tab[d] /\ pc[c] \notin {"new", "done"} /\ pc[d] \notin {"new", "done"} => c = d

\* What a call is about to save is its decision about the record of now.
Current ==
    \A c \in Calls :
        /\ pc[c] = "store" \/ (pc[c] = "saving" /\ Kind[c] = "submit")
              => MaySubmit(record[User[c]]) /\ next[c] = Submitted(c, record[User[c]])
        /\ pc[c] = "saving" /\ Kind[c] = "review"
              => /\ record[User[c]].status = "PENDING"
                 /\ next[c].status \in {"APPROVED", "REJECTED"}
                 /\ next[c] = Reviewed(record[User[c]], next[c].status)

\* A record's images are those of a submission that was saved; a submission
\* that is being saved has its images on disk.
ImagesOK ==
    /\ ImagesExist
    /\ \A u \in Users, x \in Calls \X Documents :
         x \in record[u].images => Kind[x[1]] = "submit" /\ pc[x[1]] \in {"saved", "done"}
    /\ \A c \in Calls : pc[c] = "saving" => next[c].images \subseteq disk

IInv ==
    /\ Types /\ Queued /\ KindOK /\ TurnsOK /\ TabsOK /\ Current /\ ImagesOK
    /\ \A u \in Users : Shape(record[u])
-----------------------------------------------------------------------------
\* One submission of a user at a time is past its turn.
LEMMA OneRuns ==
    ASSUME Types, TurnsOK, NEW c \in Calls, NEW d \in Calls, User[c] = User[d],
           Kind[c] = "submit", Kind[d] = "submit",
           pc[c] \notin {"new", "turn", "done"}, pc[d] \notin {"new", "turn", "done"}
    PROVE  c = d
BY DEF TurnsOK

\* What the call at the head of the turns leaves behind when it goes.
LEMMA TailOfTurns ==
    ASSUME NEW s \in Seq(Calls), s # <<>>
    PROVE  /\ Tail(s) \in Seq(Calls) /\ DOMAIN s = 1 .. Len(s) /\ Len(s) \in Nat
           /\ DOMAIN Tail(s) = 1 .. Len(s) - 1
           /\ \A i \in DOMAIN Tail(s) : i + 1 \in DOMAIN s /\ Tail(s)[i] = s[i + 1]
<1>1. Tail(s) \in Seq(Calls) /\ Len(Tail(s)) = Len(s) - 1
      /\ \A i \in 1 .. Len(Tail(s)) : Tail(s)[i] = s[i + 1]
  BY HeadTailProperties
<1>2. Len(s) \in Nat /\ DOMAIN s = 1 .. Len(s) /\ DOMAIN Tail(s) = 1 .. Len(Tail(s))
  BY <1>1, LenProperties
<1> QED BY <1>1, <1>2

\* The user without a record.
LEMMA NoRecordOK == NoRecord \in Record /\ Shape(NoRecord)
<1>1. <<>> \in Seq(Entry) /\ Len(<<>>) = 0
  BY EmptySeq
<1> QED BY <1>1 DEF NoRecord, Record, Statuses, Shape

\* The record of a submission or a review that was allowed has the shape.
LEMMA SubmittedOK ==
    ASSUME NEW c \in Calls, NEW r \in Record, Shape(r), MaySubmit(r)
    PROVE  Submitted(c, r) \in Record /\ Shape(Submitted(c, r))
<1> DEFINE e == <<"SUBMITTED", r.version + 1>>
           h == Append(r.history, e)
           s == Submitted(c, r)
<1>1. r.version \in Nat /\ r.history \in Seq(Entry) /\ e \in Entry /\ r.status \in Statuses
  BY DEF Record, Entry
<1>2. /\ h \in Seq(Entry) /\ Len(h) = Len(r.history) + 1 /\ Len(r.history) \in Nat
      /\ h[Len(r.history) + 1] = e
      /\ \A i \in 1 .. Len(r.history) : h[i] = r.history[i]
  BY <1>1, AppendProperties, LenProperties
<1>3. /\ s.status = "PENDING" /\ s.version = r.version + 1 /\ s.history = h
      /\ s \in Record
  BY <1>1, <1>2 DEF Submitted, Record, Statuses
<1>4. /\ Len(r.history) = 2 * r.version
      /\ \A v \in 1 .. r.version : r.history[2 * v - 1] = <<"SUBMITTED", v>>
      /\ \A v \in 1 .. r.version :
           r.history[2 * v] = <<IF v = r.version THEN r.status ELSE "REJECTED", v>>
  <2>1. Len(r.history) = 2 * r.version
    BY DEF Shape, MaySubmit
  <2>2. \A v \in 1 .. r.version : r.history[2 * v - 1] = <<"SUBMITTED", v>>
    BY DEF Shape
  <2>3. \A v \in 1 .. r.version : 2 * v <= Len(r.history)
    BY <1>1, <2>1
  <2> QED BY <2>1, <2>2, <2>3 DEF Shape
<1>5. r.version > 0 => r.status = "REJECTED"
  BY <1>1 DEF Shape, MaySubmit, Statuses
<1> HIDE DEF h, s
<1>6. \A v \in 1 .. s.version : h[2 * v - 1] = <<"SUBMITTED", v>>
  <2> TAKE v \in 1 .. s.version
  <2>1. CASE v = r.version + 1
    <3>1. 2 * v - 1 = Len(r.history) + 1
      BY <1>1, <1>4, <2>1
    <3> QED BY <1>2, <2>1, <3>1
  <2>2. CASE v \in 1 .. r.version
    <3>1. 2 * v - 1 \in 1 .. Len(r.history)
      BY <1>1, <1>4, <2>2
    <3> QED BY <1>2, <1>4, <2>2, <3>1
  <2> QED BY <1>1, <1>3, <2>1, <2>2
<1>7. \A v \in 1 .. s.version : 2 * v <= Len(h) =>
         h[2 * v] = <<IF v = s.version THEN s.status ELSE "REJECTED", v>>
  <2> SUFFICES ASSUME NEW v \in 1 .. s.version, 2 * v <= Len(h)
               PROVE  h[2 * v] = <<IF v = s.version THEN s.status ELSE "REJECTED", v>>
    OBVIOUS
  <2>1. v \in 1 .. r.version /\ v # s.version
    BY <1>1, <1>2, <1>3, <1>4
  <2>2. h[2 * v] = r.history[2 * v]
    BY <1>1, <1>2, <1>4, <2>1
  <2>3. (IF v = r.version THEN r.status ELSE "REJECTED") = "REJECTED"
    BY <1>1, <1>5, <2>1
  <2> QED BY <1>4, <2>1, <2>2, <2>3
<1>8. Shape(s)
  <2>1. Len(h) = Len(r.history) + 1 /\ Len(r.history) = 2 * r.version /\ r.version \in Nat
    BY <1>1, <1>2, <1>4
  <2>2. s.version = r.version + 1
    BY <1>3
  <2>3. Len(h) = 2 * s.version - 1 /\ s.version # 0
    BY <2>1, <2>2
  <2> QED BY <1>3, <1>6, <1>7, <2>3 DEF Shape
<1> QED BY <1>3, <1>8 DEF s

\* A decision keeps the images and the shape of a record.
LEMMA ReviewedOK ==
    ASSUME NEW r \in Record, Shape(r), r.status = "PENDING",
           NEW target \in {"APPROVED", "REJECTED"}
    PROVE  /\ Reviewed(r, target) \in Record /\ Shape(Reviewed(r, target))
           /\ Reviewed(r, target).status = target
           /\ Reviewed(r, target).images = r.images
<1> DEFINE e == <<target, r.version>>
           h == Append(r.history, e)
           s == Reviewed(r, target)
<1>1. r.version \in Nat /\ r.history \in Seq(Entry) /\ e \in Entry /\ r.version # 0
  BY DEF Record, Entry, Shape
<1>2. /\ h \in Seq(Entry) /\ Len(h) = Len(r.history) + 1 /\ Len(r.history) \in Nat
      /\ h[Len(r.history) + 1] = e
      /\ \A i \in 1 .. Len(r.history) : h[i] = r.history[i]
  BY <1>1, AppendProperties, LenProperties
<1>3. /\ s.status = target /\ s.version = r.version /\ s.history = h
      /\ s.images = r.images /\ s \in Record
  BY <1>1, <1>2 DEF Reviewed, Record, Statuses
<1>4. /\ Len(r.history) = 2 * r.version - 1
      /\ \A v \in 1 .. r.version : r.history[2 * v - 1] = <<"SUBMITTED", v>>
      /\ \A v \in 1 .. r.version : 2 * v <= Len(r.history) =>
           r.history[2 * v] = <<IF v = r.version THEN r.status ELSE "REJECTED", v>>
  BY <1>1 DEF Shape
<1> HIDE DEF h, s
<1>5. \A v \in 1 .. s.version : h[2 * v - 1] = <<"SUBMITTED", v>>
  <2> TAKE v \in 1 .. s.version
  <2>1. 2 * v - 1 \in 1 .. Len(r.history) /\ v \in 1 .. r.version
    BY <1>1, <1>3, <1>4
  <2> QED BY <1>2, <1>4, <2>1
<1>6. \A v \in 1 .. s.version : 2 * v <= Len(h) =>
         h[2 * v] = <<IF v = s.version THEN s.status ELSE "REJECTED", v>>
  <2> SUFFICES ASSUME NEW v \in 1 .. s.version
               PROVE  h[2 * v] = <<IF v = s.version THEN s.status ELSE "REJECTED", v>>
    OBVIOUS
  <2>1. CASE v = r.version
    BY <1>1, <1>2, <1>3, <1>4, <2>1
  <2>2. CASE v < r.version
    <3>1. 2 * v <= Len(r.history) /\ 2 * v \in 1 .. Len(r.history) /\ v \in 1 .. r.version
      BY <1>1, <1>2, <1>3, <1>4, <2>2
    <3>2. h[2 * v] = r.history[2 * v]
      BY <1>2, <3>1
    <3>3. r.history[2 * v] = <<"REJECTED", v>>
      <4>1. v # r.version
        BY <1>1, <2>2
      <4> QED BY <1>4, <3>1, <4>1
    <3>4. v # s.version
      BY <1>1, <1>3, <2>2
    <3> QED BY <3>2, <3>3, <3>4
  <2> QED BY <1>1, <1>3, <2>1, <2>2
<1>7. Shape(s)
  BY <1>1, <1>2, <1>3, <1>4, <1>5, <1>6 DEF Shape
<1> QED BY <1>3, <1>7 DEF s

\* The empty file satisfies the inductive invariant.
LEMMA InitIInv == Init => IInv
<1> SUFFICES ASSUME Init PROVE IInv OBVIOUS
<1>1. <<>> \in Seq(Calls) /\ DOMAIN <<>> = {}
  BY EmptySeq
<1>2. Types
  BY <1>1, NoRecordOK DEF Init, Types, Pcs
<1>3. Queued /\ KindOK /\ TurnsOK /\ TabsOK /\ Current
  BY <1>1, KycAssumption DEF Init, Queued, KindOK, TurnsOK, TabsOK, Current
<1>4. ImagesOK
  BY DEF Init, ImagesOK, ImagesExist, NoRecord
<1>5. \A u \in Users : Shape(record[u])
  BY NoRecordOK DEF Init
<1> QED BY <1>2, <1>3, <1>4, <1>5 DEF IInv

\* Answering ends a call that is past its turn and not in the queue.  The images
\* it may take away are its own, and no stored record names them.
LEMMA AnswerStep ==
    ASSUME IInv, NEW c \in Calls, NEW a \in {"ok", "refused", "unsaved", "unread", "lost"},
           Answer(c, a), pc[c] \in {"read", "rejected", "store", "saved", "failed"},
           UNCHANGED <<record, queue, awaits>>,
           disk' = disk \/ (pc[c] # "saved" /\ disk' = disk \ SavedBy(c))
    PROVE  IInv'
<1> USE DEF IInv
<1> DEFINE u == User[c]
<1>1. /\ pc' = [pc EXCEPT ![c] = "done"] /\ answer' = [answer EXCEPT ![c] = a]
      /\ next' = [next EXCEPT ![c] = NoRecord]
      /\ turns' = [turns EXCEPT ![u] = IF Kind[c] = "submit" THEN Tail(@) ELSE @]
      /\ u \in Users
  BY KycAssumption DEF Answer, Goto, Leave
<1>2. /\ pc \in [Calls -> Pcs] /\ pc' \in [Calls -> Pcs] /\ pc'[c] = "done"
      /\ \A d \in Calls \ {c} : pc'[d] = pc[d] /\ next'[d] = next[d]
  BY <1>1 DEF Types, Pcs
<1>3. /\ turns \in [Users -> Seq(Calls)] /\ \A v \in Users \ {u} : turns'[v] = turns[v]
      /\ turns'[u] = IF Kind[c] = "submit" THEN Tail(turns[u]) ELSE turns[u]
  BY <1>1 DEF Types
<1>4. Kind[c] = "submit" => /\ turns[u] # <<>> /\ turns[u][1] = c
                            /\ 1 \in DOMAIN turns[u]
  BY <1>1, <1>3 DEF TurnsOK
<1>5. Types'
  <2>1. turns' \in [Users -> Seq(Calls)]
    BY <1>1, <1>3, <1>4, TailOfTurns
  <2>2. next' \in [Calls -> Record]
    BY <1>1, NoRecordOK DEF Types
  <2>3. disk' \subseteq Calls \X Documents
    BY DEF Types
  <2>4. answer' \in [Calls -> {"none", "ok", "refused", "unsaved", "unread", "lost"}]
    BY <1>1 DEF Types
  <2> QED BY <1>2, <2>1, <2>2, <2>3, <2>4 DEF Types
<1>6. Queued' /\ KindOK' /\ TabsOK'
  <2>1. Queued'
    <3>1. \A i \in DOMAIN queue : queue[i] # c /\ queue[i] \in Calls
      BY ElementOfSeq, LenProperties DEF Types, Queued
    <3> QED BY <1>2, <3>1 DEF Queued
  <2> QED BY <1>2, <2>1 DEF KindOK, TabsOK
<1>7. TurnsOK'
  <2>1. CASE Kind[c] # "submit"
    <3>1. turns' = turns
      BY <1>1, <1>3, <2>1
    <3>2. \A v \in Users : \A i \in DOMAIN turns[v] : turns[v][i] \in Calls /\ turns[v][i] # c
      BY <1>3, <2>1, ElementOfSeq, LenProperties DEF TurnsOK
    <3> QED BY <1>2, <3>1, <3>2, <2>1 DEF TurnsOK
  <2>2. CASE Kind[c] = "submit"
    <3> DEFINE s == turns[u]
    <3>1. /\ s \in Seq(Calls) /\ s # <<>> /\ s[1] = c /\ turns'[u] = Tail(s)
          /\ DOMAIN s = 1 .. Len(s) /\ Len(s) \in Nat
          /\ DOMAIN Tail(s) = 1 .. Len(s) - 1
          /\ \A i \in DOMAIN Tail(s) : i + 1 \in DOMAIN s /\ Tail(s)[i] = s[i + 1]
      BY <1>1, <1>3, <1>4, <2>2, TailOfTurns
    <3>2. /\ \A i, j \in DOMAIN s : s[i] = s[j] => i = j
          /\ \A i \in DOMAIN s : /\ Kind[s[i]] = "submit" /\ User[s[i]] = u
                                 /\ pc[s[i]] \notin {"new", "done"} /\ s[i] \in Calls
      BY <1>1, <3>1, ElementOfSeq DEF TurnsOK
    <3> HIDE DEF s
    <3>3. \A v \in Users : \A i, j \in DOMAIN turns'[v] : turns'[v][i] = turns'[v][j] => i = j
      <4> TAKE v \in Users
      <4>1. CASE v = u
        BY <3>1, <3>2, <4>1
      <4>2. CASE v # u
        BY <1>3, <4>2 DEF TurnsOK
      <4> QED BY <4>1, <4>2
    <3>4. \A v \in Users : \A i \in DOMAIN turns'[v] :
             LET d == turns'[v][i] IN
             Kind[d] = "submit" /\ User[d] = v /\ pc'[d] \notin {"new", "done"}
      <4> TAKE v \in Users
      <4>1. CASE v = u
        <5> TAKE i \in DOMAIN turns'[v]
        <5>1. i + 1 \in DOMAIN s /\ turns'[v][i] = s[i + 1] /\ i + 1 # 1
          BY <3>1, <4>1
        <5>2. s[i + 1] # c /\ s[i + 1] \in Calls
          BY <3>1, <3>2, <5>1
        <5> QED BY <1>2, <3>2, <4>1, <5>1, <5>2
      <4>2. CASE v # u
        <5> TAKE i \in DOMAIN turns'[v]
        <5>1. turns'[v] = turns[v]
          BY <1>3, <4>2
        <5>2. /\ Kind[turns[v][i]] = "submit" /\ User[turns[v][i]] = v
              /\ pc[turns[v][i]] \notin {"new", "done"}
          BY <5>1 DEF TurnsOK
        <5>3. turns[v][i] \in Calls
          BY <1>3, <5>1, ElementOfSeq, LenProperties
        <5> QED BY <1>2, <4>2, <5>1, <5>2, <5>3
      <4> QED BY <4>1, <4>2
    <3>5. ASSUME NEW d \in Calls, Kind[d] = "submit", pc'[d] \notin {"new", "done"}
          PROVE  \E i \in DOMAIN turns'[User[d]] :
                    turns'[User[d]][i] = d /\ (pc'[d] # "turn" => i = 1)
      <4>1. d # c /\ pc'[d] = pc[d] /\ User[d] \in Users
        BY <1>2, <3>5, KycAssumption
      <4>2. PICK i \in DOMAIN turns[User[d]] :
               turns[User[d]][i] = d /\ (pc[d] # "turn" => i = 1)
        BY <3>5, <4>1 DEF TurnsOK
      <4>3. CASE User[d] # u
        BY <1>3, <4>1, <4>2, <4>3
      <4>4. CASE User[d] = u
        <5>1. i \in DOMAIN s /\ i # 1 /\ s[i] = d
          BY <3>1, <4>1, <4>2, <4>4 DEF s
        <5>2. pc[d] = "turn" /\ i - 1 \in DOMAIN Tail(s) /\ Tail(s)[i - 1] = d
          BY <3>1, <4>2, <5>1
        <5> QED BY <3>1, <4>1, <4>4, <5>2
      <4> QED BY <4>3, <4>4
    <3> QED BY <3>3, <3>4, <3>5 DEF TurnsOK
  <2> QED BY <2>1, <2>2
<1>8. Current'
  BY <1>2 DEF Current
<1>9. ImagesOK'
  <2>1. \A v \in Users : \A x \in record[v].images : x \in Calls \X Documents
    BY DEF Types, Record
  <2>2. ASSUME disk' = disk \ SavedBy(c), pc[c] # "saved"
        PROVE  \A v \in Users : record[v].images \subseteq disk'
    BY <2>1, <2>2 DEF ImagesOK, ImagesExist, SavedBy
  <2>3. ImagesExist'
    BY <2>2 DEF ImagesOK, ImagesExist
  <2>4. \A v \in Users, x \in Calls \X Documents :
           x \in record[v].images => Kind[x[1]] = "submit" /\ pc'[x[1]] \in {"saved", "done"}
    BY <1>2 DEF ImagesOK
  <2>5. ASSUME NEW d \in Calls, pc'[d] = "saving" PROVE next'[d].images \subseteq disk'
    <3>1. d # c /\ pc[d] = "saving" /\ next'[d] = next[d] /\ User[d] \in Users
      BY <1>2, <2>5, KycAssumption
    <3>2. next[d].images \subseteq disk
      BY <3>1 DEF ImagesOK
    <3>3. CASE Kind[d] = "submit"
      <4>1. next[d].images = {d} \X Documents
        <5>1. next[d] = Submitted(d, record[User[d]])
          BY <3>1, <3>3 DEF Current
        <5> QED BY <5>1 DEF Submitted
      <4> QED BY <3>1, <3>2, <4>1 DEF SavedBy
    <3>4. CASE Kind[d] = "review"
      <4>1. next[d].images = record[User[d]].images
        <5>1. /\ next[d] = Reviewed(record[User[d]], next[d].status)
              /\ record[User[d]] \in Record
          BY <3>1, <3>4 DEF Current, Types
        <5> QED BY <5>1 DEF Reviewed, Record
      <4> QED BY <2>3, <3>1, <4>1 DEF ImagesExist
    <3> QED BY <3>1, <3>3, <3>4, KycAssumption DEF KindOK
  <2> QED BY <2>3, <2>4, <2>5 DEF ImagesOK
<1> QED BY <1>5, <1>6, <1>7, <1>8, <1>9

\* Calls that go on without changing the turns.
LEMMA GoOn ==
    ASSUME IInv, pc' \in [Calls -> Pcs], turns' = turns,
           \A d \in Calls : \/ pc'[d] = pc[d]
                            \/ /\ pc[d] \notin {"new", "done"}
                               /\ pc'[d] \notin {"new", "turn", "done"}
                               /\ pc[d] = "turn" /\ Kind[d] = "submit"
                                     => Head(turns[User[d]]) = d
    PROVE  TurnsOK' /\ TabsOK'
<1> USE DEF IInv
<1>1. \A d \in Calls : pc'[d] \in {"new", "done"} <=> pc[d] \in {"new", "done"}
  OBVIOUS
<1>2. TabsOK'
  BY <1>1 DEF TabsOK
<1>3. \A u \in Users : \A i \in DOMAIN turns[u] : turns[u][i] \in Calls
  BY ElementOfSeq, LenProperties DEF Types
<1>4. ASSUME NEW d \in Calls, Kind[d] = "submit", pc'[d] \notin {"new", "done"}
      PROVE  \E i \in DOMAIN turns[User[d]] :
                turns[User[d]][i] = d /\ (pc'[d] # "turn" => i = 1)
  <2>1. PICK i \in DOMAIN turns[User[d]] :
           turns[User[d]][i] = d /\ (pc[d] # "turn" => i = 1)
    BY <1>1, <1>4 DEF TurnsOK
  <2>2. CASE pc'[d] = pc[d] \/ pc[d] # "turn"
    BY <2>1, <2>2
  <2>3. CASE pc[d] = "turn" /\ pc'[d] # "turn"
    <3>1. /\ User[d] \in Users /\ turns[User[d]] \in Seq(Calls)
          /\ DOMAIN turns[User[d]] = 1 .. Len(turns[User[d]]) /\ Len(turns[User[d]]) \in Nat
      BY KycAssumption, LenProperties DEF Types
    <3>2. turns[User[d]] # <<>> /\ 1 \in DOMAIN turns[User[d]]
      BY <2>1, <3>1, EmptySeq
    <3>3. Head(turns[User[d]]) = turns[User[d]][1] /\ Head(turns[User[d]]) = d
      BY <1>4, <2>3, <3>1, <3>2
    <3> QED BY <3>2, <3>3
  <2> QED BY <2>2, <2>3
<1>5. TurnsOK'
  BY <1>1, <1>3, <1>4 DEF TurnsOK
<1> QED BY <1>2, <1>5

\* A call that begins knows nothing yet.
LEMMA BeginStep ==
    ASSUME IInv, NEW c \in Calls, Begin(c) PROVE IInv'
<1> USE DEF IInv
<1> DEFINE u == User[c]
           s == turns[u]
<1>1. /\ pc' = [pc EXCEPT ![c] = "turn"] /\ pc[c] = "new"
      /\ turns' = [turns EXCEPT ![u] = IF Kind[c] = "submit" THEN Append(@, c) ELSE @]
      /\ \A d \in Calls : Tab[d] = Tab[c] => pc[d] \in {"new", "done"}
      /\ UNCHANGED <<record, disk, queue, tail, next, awaits, answer, faults>>
      /\ u \in Users
  BY KycAssumption DEF Begin, Goto
<1>2. /\ pc \in [Calls -> Pcs] /\ pc' \in [Calls -> Pcs] /\ pc'[c] = "turn"
      /\ \A d \in Calls \ {c} : pc'[d] = pc[d]
  BY <1>1 DEF Types, Pcs
<1>3. /\ turns \in [Users -> Seq(Calls)] /\ \A v \in Users \ {u} : turns'[v] = turns[v]
      /\ turns'[u] = IF Kind[c] = "submit" THEN Append(s, c) ELSE s
  BY <1>1 DEF Types
<1>4. /\ s \in Seq(Calls) /\ Len(s) \in Nat /\ DOMAIN s = 1 .. Len(s)
      /\ Append(s, c) \in Seq(Calls) /\ Len(Append(s, c)) = Len(s) + 1
      /\ DOMAIN Append(s, c) = 1 .. Len(s) + 1
      /\ Append(s, c)[Len(s) + 1] = c /\ \A i \in 1 .. Len(s) : Append(s, c)[i] = s[i]
  BY <1>1, <1>3, AppendProperties, LenProperties
<1>5. Types'
  <2>1. turns' \in [Users -> Seq(Calls)]
    BY <1>1, <1>3, <1>4
  <2> QED BY <1>1, <1>2, <2>1 DEF Types
<1>6. Queued' /\ KindOK' /\ TabsOK'
  <2>1. \A i \in DOMAIN queue : queue[i] # c /\ queue[i] \in Calls
    BY <1>1, ElementOfSeq, LenProperties DEF Types, Queued
  <2>2. Queued'
    BY <1>1, <1>2, <2>1 DEF Queued
  <2>3. TabsOK'
    BY <1>1, <1>2 DEF TabsOK
  <2> QED BY <1>2, <2>2, <2>3 DEF KindOK
<1>7. TurnsOK'
  <2>1. \A v \in Users : \A i \in DOMAIN turns[v] : turns[v][i] \in Calls /\ turns[v][i] # c
    BY <1>1, <1>3, ElementOfSeq, LenProperties DEF TurnsOK
  <2> HIDE DEF s
  <2>2. \A v \in Users : \A i, j \in DOMAIN turns'[v] : turns'[v][i] = turns'[v][j] => i = j
    <3> TAKE v \in Users
    <3>1. CASE turns'[v] = turns[v]
      BY <3>1 DEF TurnsOK
    <3>2. CASE v = u /\ turns'[v] = Append(s, c)
      <4>1. \A i \in 1 .. Len(s) : s[i] # c
        BY <1>1, <1>4, <2>1 DEF s
      <4>2. \A i, j \in 1 .. Len(s) : s[i] = s[j] => i = j
        BY <1>1, <1>4 DEF TurnsOK, s
      <4> QED BY <1>4, <3>2, <4>1, <4>2
    <3> QED BY <1>1, <1>3, <3>1, <3>2 DEF s
  <2>3. \A v \in Users : \A i \in DOMAIN turns'[v] :
           LET d == turns'[v][i] IN
           Kind[d] = "submit" /\ User[d] = v /\ pc'[d] \notin {"new", "done"}
    <3> TAKE v \in Users
    <3> TAKE i \in DOMAIN turns'[v]
    <3>1. CASE i \in DOMAIN turns[v] /\ turns'[v][i] = turns[v][i]
      <4>1. turns[v][i] # c /\ turns[v][i] \in Calls
        BY <2>1, <3>1
      <4>2. /\ Kind[turns[v][i]] = "submit" /\ User[turns[v][i]] = v
            /\ pc[turns[v][i]] \notin {"new", "done"}
        BY <3>1 DEF TurnsOK
      <4> QED BY <1>2, <3>1, <4>1, <4>2
    <3>2. CASE v = u /\ Kind[c] = "submit" /\ turns'[v][i] = c
      BY <1>2, <3>2
    <3> QED BY <1>1, <1>3, <1>4, <3>1, <3>2 DEF s
  <2>4. ASSUME NEW d \in Calls, Kind[d] = "submit", pc'[d] \notin {"new", "done"}
        PROVE  \E i \in DOMAIN turns'[User[d]] :
                  turns'[User[d]][i] = d /\ (pc'[d] # "turn" => i = 1)
    <3>1. CASE d = c
      <4>1. Len(s) + 1 \in DOMAIN turns'[u] /\ turns'[u][Len(s) + 1] = c
        BY <1>3, <1>4, <2>4, <3>1
      <4> QED BY <1>2, <3>1, <4>1
    <3>2. CASE d # c
      <4>1. PICK i \in DOMAIN turns[User[d]] :
               turns[User[d]][i] = d /\ (pc[d] # "turn" => i = 1)
        BY <1>2, <2>4, <3>2 DEF TurnsOK
      <4>2. i \in DOMAIN turns'[User[d]] /\ turns'[User[d]][i] = turns[User[d]][i]
        BY <1>1, <1>3, <1>4, <4>1, KycAssumption DEF s
      <4> QED BY <1>2, <3>2, <4>1, <4>2
    <3> QED BY <3>1, <3>2
  <2> QED BY <2>2, <2>3, <2>4 DEF TurnsOK
<1>8. Current' /\ \A v \in Users : Shape(record'[v])
  BY <1>1, <1>2 DEF Current
<1>9. ImagesOK'
  BY <1>1, <1>2 DEF ImagesOK, ImagesExist
<1> QED BY <1>5, <1>6, <1>7, <1>8, <1>9

\* A call waits for the newest save.
LEMMA AwaitStep ==
    ASSUME IInv, NEW c \in Calls, AwaitQueue(c) PROVE IInv'
<1> USE DEF IInv
<1>1. /\ pc[c] = "turn" /\ (Kind[c] = "submit" => Head(turns[User[c]]) = c)
      /\ UNCHANGED <<record, disk, queue, tail, turns, next, answer, faults>>
  BY DEF AwaitQueue, MyTurn
<1>2. PICK q \in {"read", "rejected", "await"} :
         /\ pc' = [pc EXCEPT ![c] = q]
         /\ IF q = "await" THEN queue # <<>> /\ awaits' = [awaits EXCEPT ![c] = Last(queue)]
                           ELSE awaits' = awaits
  BY DEF AwaitQueue, Goto
<1>3. pc' \in [Calls -> Pcs] /\ pc'[c] = q /\ \A d \in Calls \ {c} : pc'[d] = pc[d]
  BY <1>2 DEF Types, Pcs
<1>4. queue # <<>> => Last(queue) \in Calls
  BY ElementOfSeq, LenProperties, EmptySeq DEF Types, Last
<1>5. awaits' \in [Calls -> Calls \cup {NoCall}]
  BY <1>2, <1>4 DEF Types
<1>6. Types'
  BY <1>1, <1>3, <1>5 DEF Types
<1>7. Queued'
  <2>1. \A i \in DOMAIN queue : queue[i] # c /\ queue[i] \in Calls
    BY <1>1, ElementOfSeq, LenProperties DEF Types, Queued
  <2>2. \A d \in Calls : (pc'[d] = "await") <=> (awaits'[d] \in Calls)
    BY <1>1, <1>2, <1>3, <1>4 DEF Queued, Types
  <2> QED BY <1>1, <1>3, <2>1, <2>2 DEF Queued
<1>8. KindOK'
  BY <1>3 DEF KindOK
<1>9. TurnsOK' /\ TabsOK'
  BY <1>1, <1>3, GoOn
<1>10. Current' /\ ImagesOK' /\ \A u \in Users : Shape(record'[u])
  BY <1>1, <1>3 DEF Current, ImagesOK, ImagesExist
<1> QED BY <1>6, <1>7, <1>8, <1>9, <1>10

-----------------------------------------------------------------------------
\* The calls that read, store and save.
LEMMA ReadsTheFile == OneReviewer => Readable = {record}
BY DEF OneReviewer, Readable

\* A call that queues its save is in the queue once.
LEMMA QueueUp ==
    ASSUME IInv, NEW c \in Calls, pc[c] \in {"read", "store"}, queue' = Append(queue, c),
           pc' = [pc EXCEPT ![c] = "saving"], awaits' = awaits
    PROVE  Queued' /\ queue' \in Seq(Calls)
<1> USE DEF IInv
<1>1. /\ queue \in Seq(Calls) /\ Len(queue) \in Nat /\ DOMAIN queue = 1 .. Len(queue)
      /\ queue' \in Seq(Calls) /\ Len(queue') = Len(queue) + 1
      /\ DOMAIN queue' = 1 .. Len(queue) + 1
      /\ queue'[Len(queue) + 1] = c /\ \A i \in 1 .. Len(queue) : queue'[i] = queue[i]
  BY AppendProperties, LenProperties DEF Types
<1>2. /\ pc'[c] = "saving" /\ \A d \in Calls \ {c} : pc'[d] = pc[d]
  BY DEF Types
<1>3. \A i \in 1 .. Len(queue) : queue[i] # c /\ queue[i] \in Calls
  BY <1>1, ElementOfSeq DEF Queued
<1>4. \A i, j \in DOMAIN queue' : queue'[i] = queue'[j] => i = j
  BY <1>1, <1>3 DEF Queued
<1>5. \A i \in DOMAIN queue' : pc'[queue'[i]] = "saving"
  BY <1>1, <1>2, <1>3 DEF Queued
<1> QED BY <1>1, <1>2, <1>4, <1>5 DEF Queued

\* A submission reads only its own user's record.
LEMMA SubmitReadStep ==
    ASSUME OneReviewer, IInv, NEW c \in Calls, SubmitRead(c) PROVE IInv'
<1> USE DEF IInv
<1> DEFINE r == record[User[c]]
<1>1. /\ Kind[c] = "submit" /\ pc[c] = "read" /\ User[c] \in Users /\ r \in Record /\ Shape(r)
      /\ UNCHANGED <<record, disk, queue, tail, awaits, faults>>
  BY KycAssumption DEF SubmitRead, Types
<1>2. CASE MaySubmit(r)
  <2>1. /\ next' = [next EXCEPT ![c] = Submitted(c, r)]
        /\ pc' = [pc EXCEPT ![c] = "store"] /\ UNCHANGED <<turns, answer>>
    BY <1>2, ReadsTheFile DEF SubmitRead, Submitted, Goto
  <2>2. /\ pc' \in [Calls -> Pcs] /\ pc'[c] = "store" /\ next'[c] = Submitted(c, r)
        /\ \A d \in Calls \ {c} : pc'[d] = pc[d] /\ next'[d] = next[d]
    BY <2>1 DEF Types, Pcs
  <2>3. next' \in [Calls -> Record]
    BY <1>1, <1>2, <2>1, SubmittedOK DEF Types
  <2>4. Types'
    BY <1>1, <2>1, <2>2, <2>3 DEF Types
  <2>5. Queued'
    <3>1. \A i \in DOMAIN queue : queue[i] # c /\ queue[i] \in Calls
      BY <1>1, ElementOfSeq, LenProperties DEF Types, Queued
    <3> QED BY <1>1, <2>2, <3>1 DEF Queued
  <2>6. TurnsOK' /\ TabsOK'
    BY <1>1, <2>1, <2>2, GoOn
  <2>7. KindOK'
    BY <1>1, <2>2 DEF KindOK
  <2>8. Current'
    BY <1>1, <1>2, <2>2 DEF Current
  <2>9. ImagesOK'
    BY <1>1, <2>2 DEF ImagesOK, ImagesExist
  <2> QED BY <1>1, <2>4, <2>5, <2>6, <2>7, <2>8, <2>9
<1>3. CASE ~MaySubmit(r)
  <2>1. Answer(c, "refused")
    BY <1>3, ReadsTheFile DEF SubmitRead
  <2> QED BY <1>1, <2>1, AnswerStep
<1> QED BY <1>2, <1>3

\* An image is stored before the record that names it.
LEMMA StoreStep ==
    ASSUME IInv, NEW c \in Calls, StoreDocument(c) PROVE IInv'
<1> USE DEF IInv
<1>1. /\ disk \subseteq disk' /\ disk' \subseteq Calls \X Documents
      /\ UNCHANGED <<record, queue, tail, turns, pc, next, awaits, answer, faults>>
  BY DEF StoreDocument, Types
<1>2. Types' /\ Queued' /\ KindOK'
  BY <1>1 DEF Types, Queued, KindOK
<1>3. TurnsOK' /\ TabsOK' /\ Current'
  BY <1>1 DEF TurnsOK, TabsOK, Current
<1>4. ImagesOK' /\ \A u \in Users : Shape(record'[u])
  BY <1>1 DEF ImagesOK, ImagesExist
<1> QED BY <1>2, <1>3, <1>4

\* A submission queues a record whose images are on disk.
LEMMA SaveStep ==
    ASSUME IInv, NEW c \in Calls, SaveSubmission(c) PROVE IInv'
<1> USE DEF IInv
<1>1. /\ pc[c] = "store" /\ next[c].images \subseteq disk /\ Kind[c] = "submit"
      /\ next' = next /\ queue' = Append(queue, c) /\ pc' = [pc EXCEPT ![c] = "saving"]
      /\ UNCHANGED <<record, disk, tail, turns, awaits, answer, faults>>
  BY DEF SaveSubmission, Save, Goto, Types, KindOK
<1>2. /\ pc' \in [Calls -> Pcs] /\ pc'[c] = "saving"
      /\ \A d \in Calls \ {c} : pc'[d] = pc[d]
  BY <1>1 DEF Types, Pcs
<1>3. Queued' /\ Types'
  <2>1. Queued' /\ queue' \in Seq(Calls)
    BY <1>1, QueueUp
  <2> QED BY <1>1, <1>2, <2>1 DEF Types
<1>4. TurnsOK' /\ TabsOK'
  BY <1>1, <1>2, GoOn
<1>5. KindOK' /\ Current'
  BY <1>1, <1>2 DEF KindOK, Current
<1>6. ImagesOK' /\ \A u \in Users : Shape(record'[u])
  BY <1>1, <1>2 DEF ImagesOK, ImagesExist
<1> QED BY <1>3, <1>4, <1>5, <1>6

\* The reviewer decides on the newest record and queues it at once.
LEMMA ReviewReadStep ==
    ASSUME OneReviewer, IInv, NEW c \in Calls, ReviewRead(c) PROVE IInv'
<1> USE DEF IInv
<1> DEFINE r == record[User[c]]
<1>1. /\ Kind[c] = "review" /\ pc[c] = "read" /\ User[c] \in Users /\ r \in Record /\ Shape(r)
      /\ UNCHANGED <<record, disk, tail, awaits, faults>>
  BY KycAssumption DEF ReviewRead, Types
<1>2. PICK target \in {"APPROVED", "REJECTED"} :
         IF MayReview(r, target)
         THEN Save(c, Reviewed(r, target)) /\ UNCHANGED <<turns, answer>>
         ELSE Answer(c, IF r.status = target THEN "ok" ELSE "refused") /\ UNCHANGED queue
  BY ReadsTheFile DEF ReviewRead, Reviewed
<1>3. CASE MayReview(r, target)
  <2>1. /\ next' = [next EXCEPT ![c] = Reviewed(r, target)] /\ queue' = Append(queue, c)
        /\ pc' = [pc EXCEPT ![c] = "saving"] /\ UNCHANGED <<turns, answer>>
        /\ r.status = "PENDING"
    BY <1>2, <1>3 DEF Save, Goto, MayReview
  <2>2. /\ pc' \in [Calls -> Pcs] /\ pc'[c] = "saving" /\ next'[c] = Reviewed(r, target)
        /\ \A d \in Calls \ {c} : pc'[d] = pc[d] /\ next'[d] = next[d]
    BY <2>1 DEF Types, Pcs
  <2>3. /\ Reviewed(r, target) \in Record /\ Reviewed(r, target).status = target
        /\ Reviewed(r, target).images = r.images
    BY <1>1, <2>1, ReviewedOK
  <2>4. Queued' /\ Types'
    <3>1. Queued' /\ queue' \in Seq(Calls)
      BY <1>1, <2>1, QueueUp
    <3>2. next' \in [Calls -> Record]
      BY <2>1, <2>3 DEF Types
    <3> QED BY <1>1, <2>1, <2>2, <3>1, <3>2 DEF Types
  <2>5. TurnsOK' /\ TabsOK'
    BY <1>1, <2>1, <2>2, GoOn
  <2>6. KindOK' /\ Current'
    BY <1>1, <2>1, <2>2, <2>3 DEF KindOK, Current
  <2>7. ImagesOK'
    BY <1>1, <2>2, <2>3 DEF ImagesOK, ImagesExist
  <2> QED BY <1>1, <2>4, <2>5, <2>6, <2>7
<1>4. CASE ~MayReview(r, target)
  <2>1. PICK a \in {"ok", "refused"} : Answer(c, a)
    BY <1>2, <1>4
  <2> QED BY <1>1, <1>2, <1>4, <2>1, AnswerStep
<1> QED BY <1>3, <1>4

\* The steps that end a call write no record.
LEMMA EndingSteps ==
    ASSUME IInv, NEW c \in Calls,
           QueueRejects(c) \/ CheckRead(c) \/ DocumentFails(c) \/ SaveReturns(c)
    PROVE  IInv'
<1>1. CASE QueueRejects(c)
  BY <1>1, AnswerStep DEF QueueRejects
<1>2. CASE CheckRead(c)
  <2>1. PICK a \in {"ok", "refused"} : Answer(c, a)
    BY <1>2 DEF CheckRead
  <2> QED BY <1>2, <2>1, AnswerStep DEF CheckRead
<1>3. CASE DocumentFails(c)
  BY <1>3, AnswerStep DEF DocumentFails
<1>4. CASE SaveReturns(c)
  <2>1. PICK a \in {"ok", "unsaved"} : Answer(c, a)
    BY <1>4 DEF SaveReturns
  <2> QED BY <1>4, <2>1, AnswerStep DEF SaveReturns
<1> QED BY <1>1, <1>2, <1>3, <1>4

-----------------------------------------------------------------------------
\* The save at the head of the queue ends: only its own call and those that
\* await it go on.
LEMMA SettledStep ==
    ASSUME IInv, NEW outcome \in {"saved", "failed"}, queue # <<>>, Settled(outcome),
           UNCHANGED <<turns, next>>
    PROVE  /\ Queued' /\ KindOK' /\ TurnsOK' /\ TabsOK'
           /\ queue' \in Seq(Calls) /\ pc' \in [Calls -> Pcs]
           /\ awaits' \in [Calls -> Calls \cup {NoCall}]
           /\ Head(queue) \in Calls /\ pc[Head(queue)] = "saving"
           /\ pc'[Head(queue)] = outcome
           /\ \A c \in Calls \ {Head(queue)} :
                pc'[c] = pc[c] \/ (pc[c] = "await" /\ pc'[c] \in {"read", "rejected"})
<1> USE DEF IInv
<1> DEFINE d == Head(queue)
<1>1. /\ queue' = Tail(queue)
      /\ pc' = [c \in Calls |->
                  IF c = d THEN outcome
                  ELSE IF awaits[c] = d THEN (IF outcome = "saved" THEN "read" ELSE "rejected")
                  ELSE pc[c]]
      /\ awaits' = [c \in Calls |-> IF awaits[c] = d THEN NoCall ELSE awaits[c]]
  BY DEF Settled
<1>2. /\ queue \in Seq(Calls) /\ Len(queue) \in Nat /\ DOMAIN queue = 1 .. Len(queue)
      /\ queue' \in Seq(Calls) /\ DOMAIN queue' = 1 .. Len(queue) - 1
      /\ \A i \in DOMAIN queue' : i + 1 \in DOMAIN queue /\ queue'[i] = queue[i + 1]
      /\ 1 \in DOMAIN queue
  BY <1>1, TailOfTurns, EmptySeq DEF Types
<1>3. d = queue[1] /\ d \in Calls
  BY <1>2, HeadTailProperties
<1>4. pc[d] = "saving"
  BY <1>2, <1>3 DEF Queued
<1> HIDE DEF d
<1>5. /\ pc'[d] = outcome
      /\ \A c \in Calls \ {d} :
           pc'[c] = pc[c] \/ (pc[c] = "await" /\ pc'[c] \in {"read", "rejected"})
  BY <1>1, <1>3 DEF Queued
<1>6. pc' \in [Calls -> Pcs]
  BY <1>1, <1>5 DEF Types, Pcs
<1>7. awaits' \in [Calls -> Calls \cup {NoCall}]
  BY <1>1 DEF Types
<1>8. Queued'
  <2>1. \A i, j \in DOMAIN queue' : queue'[i] = queue'[j] => i = j
    BY <1>2 DEF Queued
  <2>2. \A i \in DOMAIN queue' : pc'[queue'[i]] = "saving"
    <3> TAKE i \in DOMAIN queue'
    <3>1. /\ i + 1 \in DOMAIN queue /\ queue'[i] = queue[i + 1] /\ i + 1 # 1
          /\ queue[i + 1] \in Calls
      BY <1>2, ElementOfSeq
    <3>2. queue[i + 1] # d /\ pc[queue[i + 1]] = "saving"
      BY <1>2, <1>3, <3>1 DEF Queued
    <3> QED BY <1>5, <3>1, <3>2
  <2>3. \A c \in Calls : (pc'[c] = "await") <=> (awaits'[c] \in Calls)
    <3> TAKE c \in Calls
    <3>1. (pc[c] = "await") <=> (awaits[c] \in Calls)
      BY DEF Queued
    <3> QED BY <1>1, <1>3, <1>4, <3>1, KycAssumption
  <2> QED BY <2>1, <2>2, <2>3 DEF Queued
<1>9. KindOK'
  BY <1>4, <1>5 DEF KindOK
<1>10. TurnsOK' /\ TabsOK'
  BY <1>3, <1>4, <1>5, <1>6, GoOn
<1> QED BY <1>2, <1>3, <1>4, <1>5, <1>6, <1>7, <1>8, <1>9, <1>10 DEF d

\* A save that fails leaves the file as it was.
LEMMA SaveFailsStep ==
    ASSUME IInv, SaveFails PROVE IInv'
<1> USE DEF IInv
<1>1. /\ Settled("failed") /\ queue # <<>> /\ UNCHANGED <<record, disk, turns, next, answer>>
  BY DEF SaveFails
<1>2. /\ Queued' /\ KindOK' /\ TurnsOK' /\ TabsOK'
      /\ queue' \in Seq(Calls) /\ pc' \in [Calls -> Pcs]
      /\ awaits' \in [Calls -> Calls \cup {NoCall}]
      /\ Head(queue) \in Calls /\ pc[Head(queue)] = "saving" /\ pc'[Head(queue)] = "failed"
      /\ \A c \in Calls \ {Head(queue)} :
           pc'[c] = pc[c] \/ (pc[c] = "await" /\ pc'[c] \in {"read", "rejected"})
  BY <1>1, SettledStep
<1>3. Types'
  BY <1>1, <1>2 DEF Types
<1>4. Current' /\ ImagesOK'
  <2>1. \A c \in Calls : pc'[c] \in {"store", "saving"} => pc'[c] = pc[c]
    BY <1>2
  <2>2. \A c \in Calls : pc[c] \in {"saved", "done"} => pc'[c] = pc[c]
    BY <1>2
  <2>3. Current'
    BY <1>1, <2>1 DEF Current
  <2> QED BY <1>1, <2>1, <2>2, <2>3 DEF ImagesOK, ImagesExist
<1> QED BY <1>1, <1>2, <1>3, <1>4

\* A save finds the record its call decided about: no other call about this
\* user is at work on it.
LEMMA RunSaveStep ==
    ASSUME OneReviewer, IInv, RunSave
    PROVE  /\ IInv'
           /\ \A u \in Users : record'[u] # record[u] => record[u].status # "APPROVED"
<1> USE DEF IInv
<1> DEFINE d == Head(queue)
           u == User[d]
<1>1. /\ Settled("saved") /\ queue # <<>> /\ UNCHANGED <<disk, turns, next, answer>>
      /\ record' = [record EXCEPT ![u] = next[d]]
  BY ReadsTheFile DEF RunSave
<1>2. /\ Queued' /\ KindOK' /\ TurnsOK' /\ TabsOK'
      /\ queue' \in Seq(Calls) /\ pc' \in [Calls -> Pcs]
      /\ awaits' \in [Calls -> Calls \cup {NoCall}]
      /\ d \in Calls /\ pc[d] = "saving" /\ pc'[d] = "saved"
      /\ \A c \in Calls \ {d} :
           pc'[c] = pc[c] \/ (pc[c] = "await" /\ pc'[c] \in {"read", "rejected"})
  BY <1>1, SettledStep
<1> HIDE DEF d
<1>3. /\ u \in Users /\ next[d] \in Record /\ record[u] \in Record /\ Shape(record[u])
      /\ Kind[d] \in {"submit", "review"}
  BY <1>2, KycAssumption DEF Types, KindOK
<1>4. /\ Kind[d] = "submit" => MaySubmit(record[u]) /\ next[d] = Submitted(d, record[u])
      /\ Kind[d] = "review" => /\ record[u].status = "PENDING"
                               /\ next[d].status \in {"APPROVED", "REJECTED"}
                               /\ next[d] = Reviewed(record[u], next[d].status)
  BY <1>2 DEF Current
<1>5. /\ record'[u] = next[d] /\ \A v \in Users \ {u} : record'[v] = record[v]
      /\ record' \in [Users -> Record]
  BY <1>1, <1>3 DEF Types
<1> HIDE DEF u
<1>6. Shape(next[d])
  <2>1. CASE Kind[d] = "submit"
    BY <1>2, <1>3, <1>4, <2>1, SubmittedOK
  <2>2. CASE Kind[d] = "review"
    BY <1>3, <1>4, <2>2, ReviewedOK
  <2> QED BY <1>3, <2>1, <2>2
<1>7. Types'
  BY <1>1, <1>2, <1>5 DEF Types
<1>8. Current'
  <2>1. ASSUME NEW c \in Calls, pc'[c] \in {"store", "saving"}, Kind[c] # "check"
        PROVE  c # d /\ pc[c] = pc'[c] /\ record'[User[c]] = record[User[c]]
    <3>1. c # d /\ pc[c] = pc'[c] /\ User[c] \in Users
      BY <1>2, <2>1, KycAssumption
    <3>2. ASSUME User[c] = u PROVE FALSE
      <4>1. CASE Kind[c] = "submit" /\ Kind[d] = "submit"
        BY <1>2, <2>1, <3>1, <3>2, <4>1, OneRuns DEF u
      <4>2. CASE Kind[c] = "review" /\ Kind[d] = "review"
        <5>1. Tab[c] = Tab[d]
          BY <1>2, <3>2, <4>2 DEF OneReviewer, u
        <5> QED BY <1>2, <2>1, <3>1, <5>1 DEF TabsOK
      <4>3. CASE Kind[c] = "submit" /\ Kind[d] = "review"
        BY <1>4, <2>1, <3>1, <3>2, <4>3 DEF Current, MaySubmit
      <4>4. CASE Kind[c] = "review" /\ Kind[d] = "submit"
        <5>1. pc[c] = "saving"
          BY <2>1, <3>1, <4>4 DEF KindOK
        <5> QED BY <1>4, <3>2, <4>4, <5>1 DEF Current, MaySubmit
      <4> QED BY <1>3, <2>1, <4>1, <4>2, <4>3, <4>4, KycAssumption
    <3> QED BY <1>5, <3>1, <3>2
  <2>2. \A c \in Calls : pc'[c] \in {"store", "saving"} => Kind[c] # "check"
    BY <1>2 DEF KindOK
  <2>3. \A c \in Calls : pc'[c] \in {"store", "saving"} =>
           /\ pc[c] = pc'[c] /\ record'[User[c]] = record[User[c]] /\ next'[c] = next[c]
    BY <1>1, <2>1, <2>2
  <2> QED BY <2>3 DEF Current
<1>9. ImagesOK'
  <2>1. next[d].images \subseteq disk
    BY <1>2 DEF ImagesOK
  <2>2. ImagesExist'
    BY <1>1, <1>5, <2>1 DEF ImagesOK, ImagesExist
  <2>3. \A c \in Calls : pc[c] \in {"saved", "done"} => pc'[c] = pc[c]
    BY <1>2
  <2>4. ASSUME NEW v \in Users, NEW x \in Calls \X Documents, x \in record'[v].images
        PROVE  Kind[x[1]] = "submit" /\ pc'[x[1]] \in {"saved", "done"}
    <3>1. CASE x \in record[v].images
      BY <2>3, <3>1 DEF ImagesOK
    <3>2. CASE x \notin record[v].images
      <4>1. v = u /\ x \in next[d].images
        BY <1>5, <2>4, <3>2
      <4>2. Kind[d] = "submit"
        BY <1>3, <1>4, <3>2, <4>1, ReviewedOK
      <4>3. x \in {d} \X Documents
        BY <1>4, <4>1, <4>2 DEF Submitted
      <4> QED BY <1>2, <4>2, <4>3
    <3> QED BY <3>1, <3>2
  <2>5. ASSUME NEW c \in Calls, pc'[c] = "saving" PROVE next'[c].images \subseteq disk'
    BY <1>1, <1>2, <2>5 DEF ImagesOK
  <2> QED BY <2>2, <2>4, <2>5 DEF ImagesOK
<1>10. \A v \in Users : Shape(record'[v])
  BY <1>5, <1>6
<1>11. \A v \in Users : record'[v] # record[v] => record[v].status # "APPROVED"
  BY <1>3, <1>4, <1>5 DEF MaySubmit
<1> QED BY <1>2, <1>7, <1>8, <1>9, <1>10, <1>11

\* A restart forgets calls and queue, never file or images.
LEMMA RestartStep ==
    ASSUME IInv, Restart PROVE IInv'
<1> USE DEF IInv
<1>1. /\ queue' = <<>> /\ turns' = [u \in Users |-> <<>>]
      /\ pc' = [c \in Calls |-> IF pc[c] = "new" THEN "new" ELSE "done"]
      /\ next' = [c \in Calls |-> NoRecord] /\ awaits' = [c \in Calls |-> NoCall]
      /\ answer' = [c \in Calls |-> IF pc[c] \in {"new", "done"} THEN answer[c] ELSE "lost"]
      /\ UNCHANGED <<record, disk>>
  BY DEF Restart
<1>2. <<>> \in Seq(Calls) /\ DOMAIN <<>> = {}
  BY EmptySeq
<1>3. Types'
  <2>1. /\ pc' \in [Calls -> Pcs] /\ next' \in [Calls -> Record]
        /\ awaits' \in [Calls -> Calls \cup {NoCall}] /\ turns' \in [Users -> Seq(Calls)]
    BY <1>1, <1>2, NoRecordOK DEF Pcs
  <2>2. answer' \in [Calls -> {"none", "ok", "refused", "unsaved", "unread", "lost"}]
    BY <1>1 DEF Types
  <2> QED BY <1>1, <1>2, <2>1, <2>2 DEF Types
<1>4. Queued' /\ KindOK' /\ TabsOK' /\ Current'
  BY <1>1, <1>2, KycAssumption DEF Queued, KindOK, TabsOK, Current
<1>5. TurnsOK'
  BY <1>1, <1>2 DEF TurnsOK
<1>6. ImagesOK' /\ \A u \in Users : Shape(record'[u])
  BY <1>1 DEF ImagesOK, ImagesExist
<1> QED BY <1>3, <1>4, <1>5, <1>6

-----------------------------------------------------------------------------
\* Every step keeps the inductive invariant, if one administrator reviews.
LEMMA NextIInv ==
    ASSUME OneReviewer PROVE IInv /\ [Next]_vars => IInv'
<1> SUFFICES ASSUME IInv, [Next]_vars PROVE IInv' OBVIOUS
<1>1. ASSUME NEW c \in Calls, Begin(c) \/ CallStep(c) \/ DocumentFails(c) PROVE IInv'
  BY <1>1, BeginStep, AwaitStep, SubmitReadStep, StoreStep, SaveStep, ReviewReadStep,
     EndingSteps DEF CallStep
<1>2. CASE RunSave \/ SaveFails \/ Restart
  BY <1>2, RunSaveStep, SaveFailsStep, RestartStep
<1>3. CASE UNCHANGED vars
  <2>1. Types' /\ Queued' /\ KindOK'
    BY <1>3 DEF vars, IInv, Types, Queued, KindOK
  <2>2. TurnsOK' /\ TabsOK' /\ Current'
    BY <1>3 DEF vars, IInv, TurnsOK, TabsOK, Current
  <2>3. ImagesOK' /\ \A u \in Users : Shape(record'[u])
    BY <1>3 DEF vars, IInv, ImagesOK, ImagesExist
  <2> QED BY <2>1, <2>2, <2>3 DEF IInv
<1> QED BY <1>1, <1>2, <1>3 DEF Next

\* The inductive invariant holds in every state (kyc-service.server.ts:12-31), if
\* one administrator reviews.
THEOREM Invariance ==
    ASSUME OneReviewer PROVE Spec => []IInv
BY InitIInv, NextIInv, PTL DEF Spec

\* The images of every stored record are on disk, whatever save, image or
\* process fails in between.
THEOREM ImagesStay ==
    ASSUME OneReviewer PROVE Spec => []ImagesExist
<1>1. IInv => ImagesExist
  BY DEF IInv, ImagesOK
<1> QED BY <1>1, Invariance, PTL

\* A step leaves an approved record as it is.
LEMMA RecordsStay ==
    ASSUME OneReviewer
    PROVE  IInv /\ [Next]_vars
              => [\A u \in Users : record[u].status = "APPROVED" => record'[u] = record[u]]_vars
<1> SUFFICES ASSUME IInv, Next, NEW u \in Users, record[u].status = "APPROVED"
             PROVE  record'[u] = record[u]
  OBVIOUS
<1>1. CASE RunSave
  BY <1>1, RunSaveStep
<1>2. CASE SaveFails \/ Restart
  BY <1>2 DEF SaveFails, Restart
<1>3. ASSUME NEW c \in Calls, Begin(c) \/ CallStep(c) \/ DocumentFails(c)
      PROVE  record' = record
  BY <1>3 DEF Begin, CallStep, AwaitQueue, QueueRejects, SubmitRead, StoreDocument,
              SaveSubmission, ReviewRead, CheckRead, SaveReturns, DocumentFails
<1> QED BY <1>1, <1>2, <1>3 DEF Next

\* An approved record is never replaced, however late a submission that read
\* the user's earlier record comes to save.
THEOREM ApprovedStays ==
    ASSUME OneReviewer PROVE Spec => ApprovedIsLocked
BY RecordsStay, Invariance, PTL DEF Spec, ApprovedIsLocked

-----------------------------------------------------------------------------
\* Every entry of a history is that of a submission or that of a decision.
LEMMA OddOrEven ==
    ASSUME NEW i \in Nat, i >= 1 PROVE \E v \in Nat : v >= 1 /\ (i = 2 * v - 1 \/ i = 2 * v)
<1>1. (i + 1) \div 2 \in Nat /\ (i + 1) \div 2 >= 1
      /\ (i = 2 * ((i + 1) \div 2) - 1 \/ i = 2 * ((i + 1) \div 2))
  OBVIOUS
<1> QED BY <1>1

Entries(r, v, actions) == {i \in DOMAIN r.history : r.history[i][2] = v /\ r.history[i][1] \in actions}

\* Where the entries of one version are.
LEMMA EntriesOf ==
    ASSUME NEW r \in Record, Shape(r), NEW v \in 1 .. r.version
    PROVE  /\ Entries(r, v, {"SUBMITTED"}) = {2 * v - 1}
           /\ Entries(r, v, {"APPROVED", "REJECTED"})
                = IF v = r.version /\ r.status = "PENDING" THEN {} ELSE {2 * v}
           /\ Entries(r, v, {"APPROVED"}) # {} => v = r.version /\ r.status = "APPROVED"
<1> DEFINE h == r.history
<1>1. /\ r.version \in Nat /\ Len(h) \in Nat /\ DOMAIN h = 1 .. Len(h) /\ r.status \in Statuses
      /\ r.status # "NOT_SUBMITTED"
  BY LenProperties DEF Record, Shape
<1>2. /\ Len(h) = IF r.status = "PENDING" THEN 2 * r.version - 1 ELSE 2 * r.version
      /\ \A w \in 1 .. r.version : h[2 * w - 1] = <<"SUBMITTED", w>>
      /\ \A w \in 1 .. r.version : 2 * w <= Len(h) =>
           h[2 * w] = <<IF w = r.version THEN r.status ELSE "REJECTED", w>>
  BY DEF Shape
<1> HIDE DEF h
<1>3. \A i \in DOMAIN h : \E w \in 1 .. r.version : i = 2 * w - 1 \/ (i = 2 * w /\ 2 * w <= Len(h))
  <2> TAKE i \in DOMAIN h
  <2>1. PICK w \in Nat : w >= 1 /\ (i = 2 * w - 1 \/ i = 2 * w)
    <3>1. i \in Nat /\ i >= 1
      BY <1>1
    <3> QED BY <3>1, OddOrEven
  <2>2. w \in 1 .. r.version /\ i <= Len(h)
    BY <1>1, <1>2, <2>1
  <2> QED BY <2>1, <2>2
<1>4. 2 * v <= Len(h) <=> ~(v = r.version /\ r.status = "PENDING")
  BY <1>1, <1>2
<1>5. 2 * v - 1 \in DOMAIN h /\ (2 * v \in DOMAIN h <=> 2 * v <= Len(h))
  BY <1>1, <1>2
<1>6. \A i \in DOMAIN h : h[i][2] = v => i = 2 * v - 1 \/ i = 2 * v
  <2> SUFFICES ASSUME NEW i \in DOMAIN h, h[i][2] = v PROVE i = 2 * v - 1 \/ i = 2 * v
    OBVIOUS
  <2>1. PICK w \in 1 .. r.version : i = 2 * w - 1 \/ (i = 2 * w /\ 2 * w <= Len(h))
    BY <1>3
  <2>2. h[2 * w - 1][2] = w /\ (2 * w <= Len(h) => h[2 * w][2] = w)
    BY <1>2
  <2>3. w = v
    BY <2>1, <2>2
  <2> QED BY <2>1, <2>3
<1>7. h[2 * v - 1] = <<"SUBMITTED", v>>
  BY <1>2
<1>8. 2 * v <= Len(h) => /\ h[2 * v][2] = v
                         /\ h[2 * v][1] = IF v = r.version THEN r.status ELSE "REJECTED"
  BY <1>2
<1>9. v = r.version /\ 2 * v <= Len(h) => r.status \in {"APPROVED", "REJECTED"}
  BY <1>1, <1>4 DEF Statuses
<1>10. Entries(r, v, {"SUBMITTED"}) = {2 * v - 1}
  BY <1>5, <1>6, <1>7, <1>8, <1>9 DEF Entries, h
<1>11. Entries(r, v, {"APPROVED", "REJECTED"})
          = IF v = r.version /\ r.status = "PENDING" THEN {} ELSE {2 * v}
  BY <1>4, <1>5, <1>6, <1>7, <1>8, <1>9 DEF Entries, h
<1>12. Entries(r, v, {"APPROVED"}) # {} => v = r.version /\ r.status = "APPROVED"
  BY <1>5, <1>6, <1>7, <1>8 DEF Entries, h
<1> QED BY <1>10, <1>11, <1>12

\* Every version of a record was submitted once, every version but the last
\* rejected once, and the last decision is the status: no call ever loses or
\* repeats an entry.
THEOREM HistoryTold ==
    ASSUME OneReviewer PROVE Spec => []HistoryIsWhole
<1>1. IInv => HistoryIsWhole
  <2> SUFFICES ASSUME IInv, NEW u \in Users, NEW v \in 1 .. record[u].version
               PROVE  LET r == record[u] IN
                      /\ Cardinality(Entries(r, v, {"SUBMITTED"})) = 1
                      /\ Cardinality(Entries(r, v, {"APPROVED", "REJECTED"}))
                             = IF v = r.version /\ r.status = "PENDING" THEN 0 ELSE 1
                      /\ Entries(r, v, {"APPROVED"}) # {} => v = r.version /\ r.status = "APPROVED"
    BY DEF HistoryIsWhole, Entries
  <2>1. record[u] \in Record /\ Shape(record[u])
    BY DEF IInv, Types
  <2> DEFINE r == record[u]
  <2>2. /\ Entries(r, v, {"SUBMITTED"}) = {2 * v - 1}
        /\ Entries(r, v, {"APPROVED", "REJECTED"})
             = IF v = r.version /\ r.status = "PENDING" THEN {} ELSE {2 * v}
        /\ Entries(r, v, {"APPROVED"}) # {} => v = r.version /\ r.status = "APPROVED"
    BY <2>1, EntriesOf
  <2>3. Cardinality({2 * v - 1}) = 1 /\ Cardinality({2 * v}) = 1 /\ Cardinality({}) = 0
    BY FS_Singleton, FS_EmptySet
  <2> QED BY <2>2, <2>3
<1> QED BY <1>1, Invariance, PTL

\* A withdrawal that passed the check belongs to a user who is approved for ever.
LEMMA EligibleStep ==
    ASSUME OneReviewer
    PROVE  IInv /\ EligibleIsApproved /\ [Next]_vars => EligibleIsApproved'
<1> SUFFICES ASSUME IInv, EligibleIsApproved, [Next]_vars,
                    NEW c \in Calls, Kind[c] = "check", answer'[c] = "ok"
             PROVE  record'[User[c]].status = "APPROVED"
  BY DEF EligibleIsApproved
<1>1. User[c] \in Users /\ answer \in [Calls -> {"none", "ok", "refused", "unsaved", "unread", "lost"}]
  BY KycAssumption DEF IInv, Types
<1>2. record[User[c]].status = "APPROVED" => record'[User[c]] = record[User[c]]
  <2>1. CASE UNCHANGED vars
    BY <2>1 DEF vars
  <2> QED BY <1>1, <2>1, RecordsStay
<1>3. CASE answer[c] = "ok"
  BY <1>2, <1>3 DEF EligibleIsApproved
<1>4. CASE answer[c] # "ok" /\ CheckRead(c)
  <2>1. PICK file \in Readable : Answer(c, IF Eligible(file[User[c]]) THEN "ok" ELSE "refused")
    BY <1>4 DEF CheckRead
  <2>2. file = record
    BY ReadsTheFile
  <2>3. Eligible(record[User[c]])
    BY <1>1, <2>1, <2>2 DEF Answer
  <2> QED BY <1>2, <2>3 DEF Eligible
<1>5. CASE answer[c] # "ok" /\ ~CheckRead(c)
  <2>1. ASSUME NEW d \in Calls, Begin(d) \/ CallStep(d) \/ DocumentFails(d)
        PROVE  answer'[c] = answer[c] \/ answer'[c] # "ok"
    <3>1. CASE \/ Begin(d) \/ AwaitQueue(d) \/ StoreDocument(d) \/ SaveSubmission(d)
      BY <3>1 DEF Begin, AwaitQueue, StoreDocument, SaveSubmission
    <3>2. CASE QueueRejects(d) \/ DocumentFails(d)
      BY <1>1, <3>2 DEF QueueRejects, DocumentFails, Answer
    <3>3. CASE SubmitRead(d)
      BY <1>1, <3>3 DEF SubmitRead, Answer
    <3>4. CASE ReviewRead(d)
      <4>1. d # c
        BY <3>4 DEF ReviewRead
      <4> QED BY <1>1, <3>4, <4>1 DEF ReviewRead, Answer
    <3>5. CASE CheckRead(d)
      <4>1. d # c
        BY <1>5, <3>5
      <4> QED BY <1>1, <3>5, <4>1 DEF CheckRead, Answer
    <3>6. CASE SaveReturns(d)
      <4>1. d # c
        BY <3>6 DEF SaveReturns, IInv, KindOK
      <4> QED BY <1>1, <3>6, <4>1 DEF SaveReturns, Answer
    <3> QED BY <2>1, <3>1, <3>2, <3>3, <3>4, <3>5, <3>6 DEF CallStep
  <2>2. ASSUME RunSave \/ SaveFails \/ Restart \/ UNCHANGED vars
        PROVE  answer'[c] = answer[c] \/ answer'[c] # "ok"
    <3>1. CASE Restart
      BY <3>1 DEF Restart
    <3> QED BY <2>2, <3>1 DEF RunSave, SaveFails, vars
  <2> QED BY <1>5, <2>1, <2>2 DEF Next
<1> QED BY <1>3, <1>4, <1>5

\* A withdrawal's eligibility check passes only for a user whose record is
\* approved (assertWithdrawalKycEligibility), if one administrator reviews.
THEOREM EligibleStays ==
    ASSUME OneReviewer PROVE Spec => []EligibleIsApproved
<1>1. Init => EligibleIsApproved
  BY DEF Init, EligibleIsApproved
<1> QED BY <1>1, EligibleStep, Invariance, PTL DEF Spec
=============================================================================
