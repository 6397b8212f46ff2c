----------------------------- MODULE KycRecords -----------------------------
(***************************************************************************)
(* Identity verification: one JSON file holds every user's record, and one *)
(* server process reads and rewrites it.                                   *)
(*                                                                         *)
(* A call is one HTTP request, made at most once: a submission, a review   *)
(* or a withdrawal's eligibility check.  The steps of a call are what      *)
(* happens between two awaits.  Saves form a queue of promises; a reader   *)
(* awaits the newest one first and fails with it.  Submissions of one user *)
(* take turns, reviews do not.                                             *)
(***************************************************************************)
EXTENDS Naturals, SequencesExt

CONSTANTS
    Users, Calls,
    Kind,           \* per call: submit, review or check
    User,           \* per call, the user it is about
    Tab,            \* per call, the browser tab, which waits for its answer
    Documents,      \* the images of a submission
    ReadsFail,      \* whether reading the file may fail
    FaultKinds, MaxFaults,
    NoCall

ASSUME KycAssumption ==
    /\ Kind \in [Calls -> {"submit", "review", "check"}]
    /\ User \in [Calls -> Users]
    /\ ReadsFail \in BOOLEAN /\ FaultKinds \subseteq {"document", "record", "restart"}
    /\ MaxFaults \in Nat /\ NoCall \notin Calls

VARIABLES
    record,         \* the file: per user, a record or NoRecord
    disk,           \* the images: <<call, document>>
    queue,          \* the calls whose saves are not finished
    tail,           \* how the last save ended, which a reader finds if queue is empty
    turns,          \* per user, the submissions waiting for each other
    pc, next,       \* per call: where it is, the record it saves
    awaits,         \* per call, the call whose save it awaits before it reads
    answer,         \* per call: none, ok, refused, unsaved, unread or lost
    faults

vars == <<record, disk, queue, tail, turns, pc, next, awaits, answer, faults>>

NoRecord == [status |-> "NOT_SUBMITTED", version |-> 0, images |-> {}, history |-> <<>>]

Init ==
    /\ record = [u \in Users |-> NoRecord] /\ disk = {}
    /\ queue = <<>> /\ tail = "saved" /\ turns = [u \in Users |-> <<>>]
    /\ pc = [c \in Calls |-> "new"] /\ next = [c \in Calls |-> NoRecord]
    /\ awaits = [c \in Calls |-> NoCall] /\ answer = [c \in Calls |-> "none"]
    /\ faults = 0

Fault(kind) == kind \in FaultKinds /\ faults < MaxFaults /\ faults' = faults + 1
Goto(c, l) == pc' = [pc EXCEPT ![c] = l]

\* mutant: only a submission that succeeds passes the turn on
LeaveIfSaved(c) ==
    turns' = [turns EXCEPT ![User[c]] =
                IF Kind[c] = "submit" /\ answer'[c] \notin {"unsaved", "unread"} THEN Tail(@) ELSE @]

\* exclusiveSubmission's finally: the next submission's turn comes, whatever
\* became of this one
Leave(c) ==
    turns' = [turns EXCEPT ![User[c]] = IF Kind[c] = "submit" THEN Tail(@) ELSE @]

Answer(c, a) ==
    /\ Goto(c, "done") /\ answer' = [answer EXCEPT ![c] = a]
    /\ next' = [next EXCEPT ![c] = NoRecord]
    /\ Leave(c)

-----------------------------------------------------------------------------
(* Beginning a call, and reading the file.                                 *)

\* the tab's button is disabled while its call runs
Begin(c) ==
    /\ pc[c] = "new"
    /\ \A d \in Calls : Tab[d] = Tab[c] => pc[d] \in {"new", "done"}
    /\ turns' = [turns EXCEPT ![User[c]] = IF Kind[c] = "submit" THEN Append(@, c) ELSE @]
    /\ Goto(c, "turn")
    /\ UNCHANGED <<record, disk, queue, tail, next, awaits, answer, faults>>

\* mutant: submissions do not wait for each other
AtOnce(c) == TRUE

MyTurn(c) == Kind[c] = "submit" => Head(turns[User[c]]) = c

\* listKycRecords: the newest save at this moment is awaited; a promise that
\* was rejected stays the newest until something is saved
AwaitQueue(c) ==
    /\ pc[c] = "turn" /\ MyTurn(c)
    /\ IF queue = <<>>
       THEN Goto(c, IF tail = "saved" THEN "read" ELSE "rejected") /\ UNCHANGED awaits
       ELSE Goto(c, "await") /\ awaits' = [awaits EXCEPT ![c] = Last(queue)]
    /\ UNCHANGED <<record, disk, queue, tail, turns, next, answer, faults>>

QueueRejects(c) ==
    /\ pc[c] = "rejected" /\ Answer(c, "unread")
    /\ UNCHANGED <<record, disk, queue, tail, awaits, faults>>

\* readAll: a file that cannot be read counts as empty
Readable == {record} \cup (IF ReadsFail THEN {[u \in Users |-> NoRecord]} ELSE {})

Save(c, r) ==
    /\ next' = [next EXCEPT ![c] = r]
    /\ queue' = Append(queue, c)
    /\ Goto(c, "saving")

-----------------------------------------------------------------------------
(* submitKyc.                                                              *)

MaySubmit(r) == r.status \notin {"PENDING", "APPROVED"}

SubmitRead(c) ==
    /\ Kind[c] = "submit" /\ pc[c] = "read"
    /\ \E file \in Readable :
         LET r == file[User[c]] IN
         IF MaySubmit(r)
         THEN /\ next' = [next EXCEPT ![c] =
                   [status |-> "PENDING", version |-> r.version + 1,
                    images |-> {c} \X Documents,
                    history |-> Append(r.history, <<"SUBMITTED", r.version + 1>>)]]
              /\ Goto(c, "store") /\ UNCHANGED <<turns, answer>>
         ELSE Answer(c, "refused")
    /\ UNCHANGED <<record, disk, queue, tail, awaits, faults>>

StoreDocument(c) ==
    /\ pc[c] = "store"
    /\ \E d \in Documents : <<c, d>> \notin disk /\ disk' = disk \cup {<<c, d>>}
    /\ UNCHANGED <<record, queue, tail, turns, pc, next, awaits, answer, faults>>

SaveSubmission(c) ==
    /\ pc[c] = "store" /\ next[c].images \subseteq disk
    /\ Save(c, next[c])
    /\ UNCHANGED <<record, disk, tail, turns, awaits, answer, faults>>

\* mutant: the folder of the user is cleaned up
SavedByUser(c) == {x \in disk : User[x[1]] = User[c]}

\* the images this call has saved
SavedBy(c) == {x \in disk : x[1] = c}

DocumentFails(c) ==
    /\ pc[c] = "store" /\ Fault("document")
    /\ disk' = disk \ SavedBy(c) /\ Answer(c, "unsaved")
    /\ UNCHANGED <<record, queue, tail, awaits>>

-----------------------------------------------------------------------------
(* reviewKyc decides and queues its save without another await.            *)

\* mutant: only the target status is looked at
ReviewAny(r, target) == r.status # "NOT_SUBMITTED"

MayReview(r, target) == r.status = "PENDING"

ReviewRead(c) ==
    /\ Kind[c] = "review" /\ pc[c] = "read"
    /\ \E file \in Readable, target \in {"APPROVED", "REJECTED"} :
         LET r == file[User[c]] IN
         IF MayReview(r, target)
         THEN /\ Save(c, [r EXCEPT !.status = target,
                                   !.history = Append(@, <<target, r.version>>)])
              /\ UNCHANGED <<turns, answer>>
         ELSE /\ Answer(c, IF r.status = target THEN "ok" ELSE "refused")
              /\ UNCHANGED queue
    /\ UNCHANGED <<record, disk, tail, awaits, faults>>

Eligible(r) == r.status = "APPROVED"

\* assertWithdrawalKycEligibility
CheckRead(c) ==
    /\ Kind[c] = "check" /\ pc[c] = "read"
    /\ \E file \in Readable : Answer(c, IF Eligible(file[User[c]]) THEN "ok" ELSE "refused")
    /\ UNCHANGED <<record, disk, queue, tail, awaits, faults>>

-----------------------------------------------------------------------------
(* The queue: each save reads the file, replaces one record and renames a  *)
(* new file over the old one.                                              *)

\* the save at the head ends: its caller and the readers that await it go on
Settled(outcome) ==
    LET d == Head(queue) IN
    /\ queue' = Tail(queue) /\ tail' = outcome
    /\ pc' = [c \in Calls |->
                IF c = d THEN outcome
                ELSE IF awaits[c] = d THEN (IF outcome = "saved" THEN "read" ELSE "rejected")
                ELSE pc[c]]
    /\ awaits' = [c \in Calls |-> IF awaits[c] = d THEN NoCall ELSE awaits[c]]

RunSave ==
    /\ queue # <<>> /\ Settled("saved")
    /\ \E file \in Readable :
         record' = [file EXCEPT ![User[Head(queue)]] = next[Head(queue)]]
    /\ UNCHANGED <<disk, turns, next, answer, faults>>

SaveFails ==
    /\ queue # <<>> /\ Settled("failed") /\ Fault("record")
    /\ UNCHANGED <<record, disk, turns, next, answer>>

\* the caller wakes up; a failed submission removes its images
SaveReturns(c) ==
    /\ pc[c] \in {"saved", "failed"}
    /\ Answer(c, IF pc[c] = "saved" THEN "ok" ELSE "unsaved")
    /\ disk' = IF pc[c] = "saved" THEN disk ELSE disk \ SavedBy(c)
    /\ UNCHANGED <<record, queue, tail, awaits, faults>>

\* the process is restarted: file and images stay, everything else is gone
Restart ==
    /\ Fault("restart")
    /\ queue' = <<>> /\ tail' = "saved" /\ turns' = [u \in Users |-> <<>>]
    /\ pc' = [c \in Calls |-> IF pc[c] = "new" THEN "new" ELSE "done"]
    /\ answer' = [c \in Calls |-> IF pc[c] \in {"new", "done"} THEN answer[c] ELSE "lost"]
    /\ next' = [c \in Calls |-> NoRecord] /\ awaits' = [c \in Calls |-> NoCall]
    /\ UNCHANGED <<record, disk>>

-----------------------------------------------------------------------------
CallStep(c) ==
    \/ AwaitQueue(c) \/ QueueRejects(c)
    \/ SubmitRead(c) \/ StoreDocument(c) \/ SaveSubmission(c)
    \/ ReviewRead(c) \/ CheckRead(c) \/ SaveReturns(c)

Next ==
    \/ \E c \in Calls : Begin(c) \/ CallStep(c) \/ DocumentFails(c)
    \/ RunSave \/ SaveFails \/ Restart

Spec == Init /\ [][Next]_vars

\* the event loop runs what is ready
FairSpec ==
    /\ Spec /\ \A c \in Calls : WF_vars(CallStep(c))
    /\ WF_vars(RunSave)

-----------------------------------------------------------------------------
TypeOK ==
    /\ \A u \in Users : record[u].status \in {"NOT_SUBMITTED", "PENDING", "APPROVED", "REJECTED"}
    /\ disk \subseteq Calls \X Documents
    /\ \A k \in DOMAIN queue : pc[queue[k]] = "saving"
    /\ \A u \in Users : turns[u] \in Seq(Calls)
    /\ pc \in [Calls -> {"new", "turn", "await", "read", "rejected", "store",
                        "saving", "saved", "failed", "done"}]
    /\ \A c \in Calls : (pc[c] = "await") <=> (awaits[c] \in Calls)
    /\ answer \in [Calls -> {"none", "ok", "refused", "unsaved", "unread", "lost"}]

\* "Approved KYC cannot be replaced": once approved, a record never changes,
\* although submissions read it long before they save.
ApprovedIsLocked ==
    [][\A u \in Users : record[u].status = "APPROVED" => record'[u] = record[u]]_vars

\* A record tells its whole story: every version was submitted once, every
\* version but the last was rejected once, and the last decision is the status.
HistoryIsWhole ==
    \A u \in Users :
        LET r == record[u]
            Entries(v, actions) ==
                {i \in DOMAIN r.history : r.history[i][2] = v /\ r.history[i][1] \in actions}
        IN \A v \in 1 .. r.version :
             /\ Cardinality(Entries(v, {"SUBMITTED"})) = 1
             /\ Cardinality(Entries(v, {"APPROVED", "REJECTED"}))
                    = IF v = r.version /\ r.status = "PENDING" THEN 0 ELSE 1
             /\ Entries(v, {"APPROVED"}) # {} => v = r.version /\ r.status = "APPROVED"

\* The images a stored record names are on disk: the cleanup of a failed call
\* never takes what a saved record needs.
ImagesExist == \A u \in Users : record[u].images \subseteq disk

\* A withdrawal that passed the check belongs to a user who is approved still.
EligibleIsApproved ==
    \A c \in Calls : Kind[c] = "check" /\ answer[c] = "ok" => record[User[c]].status = "APPROVED"

\* Every call ends, also one that fails or waits behind one that fails.
CallsEnd == <>[](\A c \in Calls : pc[c] \in {"new", "done"})

\* "KYC submission could not be saved. Please retry.": no call fails because an
\* earlier call's save failed (KycWedged.cfg).
RetryIsServed == \A c \in Calls : answer[c] # "unread"
=============================================================================
