------------------------------ MODULE CvDeskProofs ------------------------------
(***************************************************************************)
(* Theorems about CvDesk, for any number of requests and version labels.   *)
(*                                                                         *)
(* The desk falls into two halves that share only the handlers' control:   *)
(* the documents with the uploads (DocumentsOK), and the CV requests with  *)
(* their inbox entries, e-mails and downloads (RequestsOK).                *)
(***************************************************************************)
EXTENDS CvDesk, FiniteSetTheorems, TLAPS

\* An upload's row is new until its commit, and what its UPDATE addressed is every
\* document there was when it began, or nothing for a variant; no UPDATE addresses
\* a document that is not committed.
UploadOK(r) ==
  /\ held[r] \in Document /\ held[r].id = r
  /\ IF held[r].is_active THEN Fallback \in snap[r] ELSE snap[r] = {}

DocumentsOK ==
  /\ documents \subseteq Document
  /\ snap \in [Requests -> SUBSET (Requests \cup {Fallback})]
  /\ Fallback \in Ids(documents)
  /\ \A r \in Requests :
       /\ snap[r] \subseteq Ids(documents)
       /\ pc[r] \in {"idle"} \cup Uploading => r \notin Ids(documents)
       /\ pc[r] \in Uploading => UploadOK(r)
  /\ NeverWithoutCv
  /\ OneDefaultUnlessRaced

\* What a request's session holds is at each step what its next statement needs; a
\* download that is still to be tracked has not been.
SessionOK(r) ==
  /\ pc[r] \in {"idle", "accepted"} => r \notin Ids(cv_requests)
  /\ pc[r] = "accepted" => held[r] \in CvRequest /\ held[r].id = r /\ held[r].download_count = 0
  /\ pc[r] \in {"saved", "indexed", "answered"} => r \in Ids(cv_requests)
  /\ pc[r] = "tracking" =>
       /\ held[r] \in CvRequest /\ held[r].id \in Ids(cv_requests)
       /\ held[r].download_count <= Cardinality(Tracks(held[r].id))
  /\ pc[r] \in {"idle", "tracking"} => \A t \in tracked : t[1] # r

RequestsOK ==
  /\ cv_requests \subseteq CvRequest
  /\ tracked \subseteq Requests \X Requests
  /\ IsFiniteSet(tracked)
  /\ \A t \in tracked : t[2] \in Ids(cv_requests)
  /\ \A r \in Requests : SessionOK(r)
  /\ NothingPrecedesTheRequest
  /\ CountIsPlausible

IInv == TypeOK /\ DocumentsOK /\ RequestsOK

LEMMA InitIInv == Init => IInv
<1> SUFFICES ASSUME Init PROVE IInv
  OBVIOUS
<1>1. TypeOK
  BY DEF Init, TypeOK, Document
<1>2. DocumentsOK
  <2> DEFINE seeded == [id |-> Fallback, version |-> Fallback, is_active |-> TRUE]
  <2>1. seeded.is_active /\ seeded.id = Fallback /\ documents = {seeded}
    BY DEF Init
  <2> HIDE DEF seeded
  <2>2. Ids(documents) = {Fallback} /\ Active = {seeded}
    BY <2>1 DEF Active, Ids
  <2> QED
    BY <1>1, <2>1, <2>2, NameAssumption DEF Init, DocumentsOK, Uploading, NeverWithoutCv,
      OneDefaultUnlessRaced, TypeOK
<1>3. RequestsOK
  <2>1. IsFiniteSet(tracked)
    BY FS_EmptySet DEF Init
  <2>2. CountIsPlausible
    BY DEF Init, CountIsPlausible
  <2> QED
    BY <2>1, <2>2 DEF Init, RequestsOK, SessionOK, Ids, NothingPrecedesTheRequest
<1> QED
  BY <1>1, <1>2, <1>3 DEF IInv

------------------------------------------------------------------------------
(* The two halves leave each other alone. *)

\* A step of a handler that is not an upload's: it leaves the documents alone, and
\* enters neither the upload's steps nor the first one.
LEMMA DocumentsKept ==
  ASSUME DocumentsOK, TypeOK, NEW r \in Requests, NEW step, step \notin {"idle"} \cup Uploading,
         Goto(r, step), UNCHANGED <<documents, snap>>,
         \A q \in Requests \ {r} : held'[q] = held[q]
  PROVE  DocumentsOK'
<1>1. \A q \in Requests : pc'[q] \in {"idle"} \cup Uploading => q # r /\ pc'[q] = pc[q]
  BY DEF Goto, TypeOK
<1>2. ASSUME NEW q \in Requests
      PROVE  /\ snap'[q] \subseteq Ids(documents)'
             /\ pc'[q] \in {"idle"} \cup Uploading => q \notin Ids(documents)'
             /\ pc'[q] \in Uploading => UploadOK(q)'
  BY <1>1 DEF DocumentsOK, Ids, UploadOK
<1> QED
  BY <1>2 DEF DocumentsOK, Ids, NeverWithoutCv, OneDefaultUnlessRaced, Active

\* An upload's step leaves the requests alone, and begins no step of theirs.
LEMMA RequestsKept ==
  ASSUME RequestsOK, TypeOK, NEW r \in Requests,
         NEW step \in {"updating", "locked"} \cup Ended, Goto(r, step),
         UNCHANGED <<cv_requests, inbox, mailed, tracked>>,
         \A q \in Requests \ {r} : held'[q] = held[q]
  PROVE  RequestsOK'
<1>1. ASSUME NEW q \in Requests PROVE SessionOK(q)'
  <2>1. CASE q = r
    BY <2>1 DEF SessionOK, Goto, TypeOK, Ended
  <2>2. CASE q # r
    <3>1. \A id : Tracks(id)' = Tracks(id)
      BY DEF Tracks
    <3>2. SessionOK(q) /\ pc'[q] = pc[q] /\ held'[q] = held[q]
      BY <2>2 DEF RequestsOK, Goto, TypeOK
    <3> QED
      BY <3>1, <3>2 DEF SessionOK, Ids
  <2> QED
    BY <2>1, <2>2
<1>2. CountIsPlausible'
  <2>1. \A id : Tracks(id)' = Tracks(id)
    BY DEF Tracks
  <2> QED
    BY <2>1 DEF RequestsOK, CountIsPlausible
<1> QED
  BY <1>1, <1>2 DEF RequestsOK, Ids, NothingPrecedesTheRequest

------------------------------------------------------------------------------
(* Uploads *)

LEMMA UploadKeeps ==
  ASSUME IInv, NEW r \in Requests, NEW v \in Versions, NEW activate \in BOOLEAN,
         upload_cv(r, v, activate)
  PROVE  IInv'
<1> USE DEF IInv
<1>1. TypeOK'
  BY DEF TypeOK, upload_cv, Goto, Hold, addressed, Ids, Document, Uploading
<1>2. RequestsOK'
  <2>1. Goto(r, "updating") /\ \A q \in Requests \ {r} : held'[q] = held[q]
    BY DEF upload_cv, Hold, TypeOK
  <2> QED
    BY <2>1, RequestsKept DEF upload_cv
<1>3. DocumentsOK'
  <2>1. ASSUME NEW q \in Requests
        PROVE  /\ snap'[q] \subseteq Ids(documents)'
               /\ pc'[q] \in {"idle"} \cup Uploading => q \notin Ids(documents)'
               /\ pc'[q] \in Uploading => UploadOK(q)'
    BY DEF DocumentsOK, upload_cv, Goto, Hold, addressed, Ids, UploadOK, Document, TypeOK, Uploading
  <2>2. OneDefaultUnlessRaced'
    \* r has no document yet, so nobody looks at what its UPDATE addresses
    <3>1. \A y \in Active : y.id # r
      BY DEF DocumentsOK, upload_cv, Ids, Active
    <3>2. \A y \in Active : y.id \in Requests => snap'[y.id] = snap[y.id]
      BY <3>1 DEF upload_cv, TypeOK
    <3> QED
      BY <3>2 DEF DocumentsOK, OneDefaultUnlessRaced, Active, upload_cv
  <2> QED
    BY <1>1, <2>1, <2>2 DEF DocumentsOK, TypeOK, upload_cv, Ids, NeverWithoutCv, Active
<1> QED
  BY <1>1, <1>2, <1>3

LEMMA AcquireKeeps ==
  ASSUME IInv, NEW r \in Requests, acquire(r)
  PROVE  IInv'
<1> USE DEF IInv
<1>1. TypeOK'
  BY DEF TypeOK, acquire, Goto, Uploading
<1>2. RequestsOK'
  BY RequestsKept DEF acquire
<1>3. DocumentsOK'
  <2>1. ASSUME NEW q \in Requests
        PROVE  pc'[q] \in {"idle"} \cup Uploading =>
                 pc[q] \in {"idle"} \cup Uploading /\ (pc'[q] \in Uploading => pc[q] \in Uploading)
    BY DEF acquire, Goto, TypeOK, Uploading
  <2> QED
    BY <2>1 DEF DocumentsOK, acquire, Ids, UploadOK, NeverWithoutCv, OneDefaultUnlessRaced, Active
<1> QED
  BY <1>1, <1>2, <1>3

\* The table after a commit that is not refused: old documents, the addressed ones
\* switched off, and the upload's own.
LEMMA CommittedIs ==
  ASSUME documents \subseteq Document, NEW row \in Document, NEW off,
         \A d \in documents : d.version # row.version
  PROVE  /\ committed(row, off) \subseteq Document
         /\ Ids(committed(row, off)) = Ids(documents) \cup {row.id}
         /\ row \in committed(row, off)
         /\ \A d \in committed(row, off) :
              d.is_active /\ d # row => d \in documents /\ d.id \notin off
         /\ off = {} => documents \subseteq committed(row, off)
<1> DEFINE new(d) == IF d.id \in off THEN [d EXCEPT !.is_active = FALSE] ELSE d
<1>1. committed(row, off) = {new(d) : d \in documents} \cup {row}
  BY DEF committed
<1>2. \A d \in Document : new(d) \in Document /\ new(d).id = d.id
  BY DEF Document
<1>3. \A d \in Document : new(d).is_active => d.id \notin off /\ new(d) = d
  BY DEF Document
<1>4. off = {} => \A d \in documents : new(d) = d
  OBVIOUS
<1> HIDE DEF new
<1>5. Ids(committed(row, off)) = Ids(documents) \cup {row.id}
  BY <1>1, <1>2 DEF Ids
<1> QED
  BY <1>1, <1>2, <1>3, <1>4, <1>5

LEMMA CommitUploadKeeps ==
  ASSUME IInv, NEW r \in Requests, commit_upload(r)
  PROVE  IInv'
<1> USE DEF IInv
<1> DEFINE row == held[r]
           off == snap[r]
<1>1. UploadOK(r) /\ r \notin Ids(documents) /\ row \in Document /\ row.id = r
  BY DEF DocumentsOK, commit_upload, Uploading, UploadOK
<1>2. documents' = committed(row, off) /\ UNCHANGED <<held, snap>>
  BY DEF commit_upload
<1>3. PICK step \in {"done", "500"} : Goto(r, step)
  BY DEF commit_upload
<1>4. RequestsOK'
  BY <1>2, <1>3, RequestsKept DEF commit_upload, Ended
<1>5. CASE \E d \in documents : d.version = row.version
  <2>1. documents' = documents
    BY <1>2, <1>5 DEF committed
  <2>2. DocumentsOK'
    BY <1>2, <1>3, <2>1, DocumentsKept DEF Uploading
  <2>3. TypeOK'
    BY <1>2, <1>3, <2>1 DEF TypeOK, commit_upload, Goto, Ended
  <2> QED
    BY <1>4, <2>2, <2>3
<1>6. CASE \A d \in documents : d.version # row.version
  <2> HIDE DEF row, off
  <2>1. /\ documents' \subseteq Document
        /\ Ids(documents)' = Ids(documents) \cup {r}
        /\ row \in documents'
        /\ \A d \in documents' : d.is_active /\ d # row => d \in documents /\ d.id \notin off
        /\ off = {} => documents \subseteq documents'
    <3>1. Ids(documents)' = Ids(documents')
      BY DEF Ids
    <3> QED
      BY <1>1, <1>2, <1>6, <3>1, CommittedIs DEF DocumentsOK
  <2>2. TypeOK'
    BY <1>2, <1>3, <2>1 DEF TypeOK, commit_upload, Goto, Ended
  <2>3. ASSUME NEW q \in Requests
        PROVE  /\ snap'[q] \subseteq Ids(documents)'
               /\ pc'[q] \in {"idle"} \cup Uploading => q \notin Ids(documents)'
               /\ pc'[q] \in Uploading => UploadOK(q)'
    BY <1>2, <1>3, <2>1 DEF DocumentsOK, UploadOK, Goto, TypeOK, Uploading
  <2>4. NeverWithoutCv'
    <3>1. CASE row.is_active
      BY <2>1, <3>1 DEF NeverWithoutCv, Active
    <3>2. CASE ~row.is_active
      BY <1>1, <2>1, <3>2 DEF DocumentsOK, NeverWithoutCv, Active, UploadOK, row, off
    <3> QED
      BY <3>1, <3>2
  <2>5. OneDefaultUnlessRaced'
    <3>1. ASSUME NEW y \in Active', y # row, row.is_active
          PROVE  y.id \in Requests /\ y.id \notin snap[r] /\ r \notin snap[y.id]
      <4>1. y \in documents /\ y.id \notin off
        BY <2>1, <3>1 DEF Active
      <4>2. y.id \in Requests
        BY <1>1, <3>1, <4>1 DEF UploadOK, off, row, DocumentsOK, Document
      <4>3. snap[y.id] \subseteq Ids(documents)
        BY <4>2 DEF DocumentsOK
      <4> QED
        BY <1>1, <4>1, <4>2, <4>3 DEF off
    <3>2. ASSUME NEW x \in Active', NEW y \in Active', x # row, y # row, x # y
          PROVE  /\ {x.id, y.id} \subseteq Requests
                 /\ x.id \notin snap[y.id] /\ y.id \notin snap[x.id]
      BY <2>1, <3>2 DEF Active, DocumentsOK, OneDefaultUnlessRaced
    <3>3. row.id = r /\ \A x \in Active' : x.is_active
      BY <1>1 DEF Active, row
    <3> QED
      BY <1>2, <3>1, <3>2, <3>3 DEF OneDefaultUnlessRaced
  <2>6. Fallback \in Ids(documents)' /\ snap' \in [Requests -> SUBSET (Requests \cup {Fallback})]
    BY <1>2, <2>1 DEF DocumentsOK
  <2> QED
    BY <1>4, <2>1, <2>2, <2>3, <2>4, <2>5, <2>6 DEF DocumentsOK
<1> QED
  BY <1>5, <1>6

------------------------------------------------------------------------------
(* Requests for the CV *)

\* A count that is right stays right while its request gains no download, and a new
\* request has none.
LEMMA CountStays ==
  ASSUME RequestsOK, UNCHANGED tracked,
         \A x \in cv_requests' \ cv_requests :
           x.download_count = 0 /\ x.id \notin Ids(cv_requests)
  PROVE  CountIsPlausible'
<1>1. \A id : Tracks(id)' = Tracks(id)
  BY DEF Tracks
<1>2. ASSUME NEW x \in cv_requests', x \notin cv_requests
      PROVE  x.download_count = 0 /\ Cardinality(Tracks(x.id)) = 0
  <2>1. Tracks(x.id) = {}
    BY <1>2 DEF RequestsOK, Tracks
  <2> QED
    BY <1>2, <2>1, FS_EmptySet
<1>3. ASSUME NEW x \in cv_requests
      PROVE  /\ x.download_count <= Cardinality(Tracks(x.id))
             /\ Cardinality(Tracks(x.id)) > 0 => x.download_count > 0
  BY DEF RequestsOK, CountIsPlausible
<1> QED
  BY <1>1, <1>2, <1>3 DEF CountIsPlausible

LEMMA SameRows ==
  ASSUME RequestsOK, UNCHANGED <<cv_requests, tracked>>,
         \A i \in inbox' \cup mailed' : i \in Ids(cv_requests),
         \A r \in Requests : SessionOK(r)'
  PROVE  RequestsOK'
<1>1. CountIsPlausible'
  <2>1. cv_requests' \ cv_requests = {}
    OBVIOUS
  <2> QED
    BY <2>1, CountStays
<1> QED
  BY <1>1 DEF RequestsOK, NothingPrecedesTheRequest, Ids

\* A step of one handler that changes no row of the requests.
LEMMA SessionMoves ==
  ASSUME TypeOK, RequestsOK, NEW r \in Requests, NEW step, Goto(r, step), UNCHANGED cv_requests,
         UNCHANGED tracked, \A q \in Requests \ {r} : held'[q] = held[q],
         SessionOK(r)'
  PROVE  \A q \in Requests : SessionOK(q)'
<1>1. \A id : Tracks(id)' = Tracks(id)
  BY DEF Tracks
<1>2. ASSUME NEW q \in Requests \ {r} PROVE SessionOK(q)'
  <2>1. SessionOK(q) /\ pc'[q] = pc[q] /\ held'[q] = held[q]
    BY DEF RequestsOK, Goto, TypeOK
  <2> QED
    BY <1>1, <2>1 DEF SessionOK, Ids
<1> QED
  BY <1>2

\* A handler's step after which its session is as it should be, on rows that stay.
LEMMA RequestStep ==
  ASSUME IInv, NEW r \in Requests, NEW step \in Requesting \cup Downloading \cup Ended \cup {"answered"},
         Goto(r, step),
         UNCHANGED <<documents, cv_requests, inbox, mailed, snap, tracked>>,
         held' \in [Requests -> Document \cup CvRequest \cup {None}],
         \A q \in Requests \ {r} : held'[q] = held[q], SessionOK(r)'
  PROVE  IInv'
<1> USE DEF IInv
<1>1. TypeOK'
  BY DEF TypeOK, Goto
<1>2. step \notin {"idle"} \cup Uploading
  BY DEF Requesting, Downloading, Ended, Uploading
<1>3. DocumentsOK'
  BY <1>2, DocumentsKept
<1>4. RequestsOK'
  <2>1. \A q \in Requests : SessionOK(q)'
    BY SessionMoves
  <2>2. \A i \in inbox' \cup mailed' : i \in Ids(cv_requests)
    BY DEF RequestsOK, NothingPrecedesTheRequest
  <2> QED
    BY <2>1, <2>2, SameRows
<1> QED
  BY <1>1, <1>3, <1>4

LEMMA RequestCvKeeps ==
  ASSUME IInv, NEW r \in Requests, request_cv(r)
  PROVE  IInv'
<1> USE DEF IInv
<1>1. r \notin Ids(cv_requests)
  BY DEF request_cv, RequestsOK, SessionOK
<1>2. CASE (Goto(r, "404") \/ Goto(r, "500")) /\ UNCHANGED held
  <2>1. PICK step \in {"404", "500"} : Goto(r, step) /\ UNCHANGED held
    BY <1>2
  <2>2. SessionOK(r)'
    BY <2>1 DEF SessionOK, Goto, TypeOK
  <2> QED
    BY <2>1, <2>2, RequestStep DEF request_cv, Ended, TypeOK
<1>3. ASSUME NEW d \in Active, Hold(r, requested(r, d)), Goto(r, "accepted")
      PROVE  IInv'
  <2>1. requested(r, d) \in CvRequest /\ requested(r, d).id = r
                                    /\ requested(r, d).download_count = 0
    BY DEF requested, CvRequest, Active, TypeOK, Document
  <2>2. SessionOK(r)'
    BY <1>1, <1>3, <2>1 DEF SessionOK, Goto, Hold, TypeOK, request_cv, Ids
  <2>3. /\ held' \in [Requests -> Document \cup CvRequest \cup {None}]
        /\ \A q \in Requests \ {r} : held'[q] = held[q]
    BY <1>3, <2>1 DEF Hold, TypeOK
  <2> QED
    BY <1>3, <2>2, <2>3, RequestStep DEF request_cv, Requesting
<1> QED
  BY <1>2, <1>3 DEF request_cv

\* A step that writes a row or an entry of the requests.
LEMMA TableStep ==
  ASSUME IInv, NEW r \in Requests, NEW step \in Requesting \cup Downloading \cup Ended \cup {"answered"},
         Goto(r, step), UNCHANGED <<documents, held, snap>>,
         inbox' \subseteq Requests, mailed' \subseteq Requests, RequestsOK'
  PROVE  IInv'
<1>1. TypeOK'
  BY DEF IInv, TypeOK, RequestsOK, Goto
<1>2. step \notin {"idle"} \cup Uploading
  BY DEF Requesting, Downloading, Ended, Uploading
<1> QED
  BY <1>1, <1>2, DocumentsKept DEF IInv

LEMMA SaveRequestKeeps ==
  ASSUME IInv, NEW r \in Requests, save_request(r)
  PROVE  IInv'
<1> USE DEF IInv
<1> DEFINE row == held[r]
<1>1. row \in CvRequest /\ row.id = r /\ row.download_count = 0 /\ r \notin Ids(cv_requests)
  BY DEF save_request, RequestsOK, SessionOK
<1>2. cv_requests' = cv_requests \cup {row} /\ Goto(r, "saved")
      /\ UNCHANGED <<documents, inbox, mailed, held, snap, tracked>>
  BY DEF save_request
<1> HIDE DEF row
<1>3. Ids(cv_requests)' = Ids(cv_requests) \cup {r}
  BY <1>1, <1>2 DEF Ids
<1>4. ASSUME NEW q \in Requests PROVE SessionOK(q)'
  <2>1. \A id : Tracks(id)' = Tracks(id)
    BY <1>2 DEF Tracks
  <2>2. CASE q = r
    BY <1>2, <1>3, <2>2 DEF SessionOK, Goto, TypeOK
  <2>3. CASE q # r
    <3>1. SessionOK(q) /\ pc'[q] = pc[q] /\ held'[q] = held[q]
      BY <1>2, <2>3 DEF RequestsOK, Goto, TypeOK
    <3> QED
      BY <1>2, <1>3, <2>1, <2>3, <3>1 DEF SessionOK
  <2> QED
    BY <2>2, <2>3
<1>5. CountIsPlausible'
  <2>1. \A x \in cv_requests' \ cv_requests :
          x.download_count = 0 /\ x.id \notin Ids(cv_requests)
    BY <1>1, <1>2
  <2> QED
    BY <1>2, <2>1, CountStays
<1>6. RequestsOK'
  BY <1>1, <1>2, <1>3, <1>4, <1>5 DEF RequestsOK, NothingPrecedesTheRequest
<1> QED
  BY <1>2, <1>6, TableStep DEF Requesting, TypeOK

\* A saved request gets its inbox entry or its e-mails.
LEMMA EntryStep ==
  ASSUME IInv, NEW r \in Requests, pc[r] \in {"saved", "answered"},
         NEW step \in {"indexed", "done"}, Goto(r, step),
         inbox' \subseteq inbox \cup {r}, mailed' \subseteq mailed \cup {r},
         UNCHANGED <<documents, cv_requests, held, snap, tracked>>
  PROVE  IInv'
<1> USE DEF IInv
<1>1. r \in Ids(cv_requests)
  BY DEF RequestsOK, SessionOK
<1>2. SessionOK(r)'
  BY <1>1 DEF SessionOK, Goto, TypeOK, Ids
<1>3. \A q \in Requests : SessionOK(q)'
  BY <1>2, SessionMoves
<1>4. \A i \in inbox' \cup mailed' : i \in Ids(cv_requests)
  BY <1>1 DEF RequestsOK, NothingPrecedesTheRequest
<1>5. RequestsOK'
  BY <1>3, <1>4, SameRows
<1>6. inbox' \subseteq Requests /\ mailed' \subseteq Requests
  BY DEF TypeOK
<1> QED
  BY <1>5, <1>6, TableStep DEF Requesting, Ended

LEMMA AnswerKeeps ==
  ASSUME IInv, NEW r \in Requests, answer_request(r)
  PROVE  IInv'
<1>1. SessionOK(r)'
  BY DEF IInv, RequestsOK, SessionOK, answer_request, Goto, TypeOK, Ids
<1>2. held' \in [Requests -> Document \cup CvRequest \cup {None}] /\ held' = held
  BY DEF answer_request, IInv, TypeOK
<1> QED
  BY <1>1, <1>2, RequestStep DEF answer_request

------------------------------------------------------------------------------
(* Downloads *)

LEMMA DownloadKeeps ==
  ASSUME IInv, NEW r \in Requests, NEW q \in Requests \cup {None}, download_cv(r, q)
  PROVE  IInv'
<1> USE DEF IInv
<1>1. \A t \in tracked : t[1] # r
  BY DEF download_cv, RequestsOK, SessionOK
<1>2. CASE Goto(r, "serving") /\ UNCHANGED held
  <2>1. SessionOK(r)'
    BY <1>2 DEF SessionOK, Goto, TypeOK
  <2>2. held' \in [Requests -> Document \cup CvRequest \cup {None}] /\ held' = held
    BY <1>2 DEF TypeOK
  <2> QED
    BY <1>2, <2>1, <2>2, RequestStep DEF download_cv, Downloading
<1>3. ASSUME NEW x \in cv_requests, Hold(r, x), Goto(r, "tracking")
      PROVE  IInv'
  <2>1. /\ x \in CvRequest /\ x.id \in Ids(cv_requests)
        /\ x.download_count <= Cardinality(Tracks(x.id))
    BY DEF RequestsOK, CountIsPlausible, Ids
  <2>2. /\ held'[r] = x /\ held' \in [Requests -> Document \cup CvRequest \cup {None}]
        /\ \A p \in Requests \ {r} : held'[p] = held[p]
    BY <1>3, <2>1 DEF Hold, TypeOK
  <2>3. /\ \A id : Tracks(id)' = Tracks(id)
        /\ pc'[r] = "tracking" /\ UNCHANGED <<cv_requests, tracked>>
    BY <1>3 DEF Tracks, download_cv, Goto, TypeOK
  <2>4. SessionOK(r)'
    BY <1>1, <2>1, <2>2, <2>3 DEF SessionOK, Ids
  <2> QED
    BY <1>3, <2>2, <2>4, RequestStep DEF download_cv, Downloading
<1> QED
  BY <1>2, <1>3 DEF download_cv

\* A tracking commit is one more download of its request and of no other.
LEMMA OneMoreTrack ==
  ASSUME RequestsOK, NEW r \in Requests, NEW id \in Requests, \A t \in tracked : t[1] # r,
         tracked' = tracked \cup {<<r, id>>}
  PROVE  /\ IsFiniteSet(tracked')
         /\ Cardinality(Tracks(id))' = Cardinality(Tracks(id)) + 1
         /\ \A i : i # id => Tracks(i)' = Tracks(i)
         /\ \A i : Cardinality(Tracks(i)) \in Nat
<1>1. \A i : IsFiniteSet(Tracks(i))
  BY FS_Subset DEF RequestsOK, Tracks
<1>2. Tracks(id)' = Tracks(id) \cup {<<r, id>>} /\ <<r, id>> \notin Tracks(id)
  BY DEF Tracks
<1>3. \A i : i # id => Tracks(i)' = Tracks(i)
  BY DEF Tracks
<1>4. Cardinality(Tracks(id) \cup {<<r, id>>}) = Cardinality(Tracks(id)) + 1
  BY <1>1, <1>2, FS_AddElement
<1>5. IsFiniteSet(tracked')
  BY FS_AddElement DEF RequestsOK
<1> QED
  BY <1>1, <1>2, <1>3, <1>4, <1>5, FS_CardinalityType

LEMMA TrackKeeps ==
  ASSUME IInv, NEW r \in Requests, track(r)
  PROVE  IInv'
<1> USE DEF IInv
<1> PICK id, read : id = held[r].id /\ read = held[r].download_count
  OBVIOUS
<1> DEFINE new(x) == IF x.id = id THEN [x EXCEPT !.download_count = read + 1] ELSE x
<1>1. /\ held[r] \in CvRequest /\ id \in Ids(cv_requests) /\ id \in Requests /\ read \in Nat
      /\ read <= Cardinality(Tracks(id)) /\ \A t \in tracked : t[1] # r
  BY DEF track, RequestsOK, SessionOK, CvRequest
<1>2. CASE Goto(r, "500") /\ UNCHANGED <<cv_requests, tracked>>
  <2>1. SessionOK(r)'
    BY <1>2 DEF SessionOK, Goto, TypeOK
  <2>2. held' \in [Requests -> Document \cup CvRequest \cup {None}] /\ held' = held
    BY DEF track, TypeOK
  <2> QED
    BY <1>2, <2>1, <2>2, RequestStep DEF track, Ended
<1>3. CASE /\ Goto(r, "serving")
           /\ cv_requests' = {new(x) : x \in cv_requests}
           /\ tracked' = tracked \cup {<<r, id>>}
  <2>1. \A x \in CvRequest :
          /\ new(x) \in CvRequest /\ new(x).id = x.id
          /\ new(x).download_count = IF x.id = id THEN read + 1 ELSE x.download_count
    BY <1>1 DEF CvRequest
  <2> HIDE DEF new
  <2>2. cv_requests' \subseteq CvRequest /\ Ids(cv_requests)' = Ids(cv_requests)
    BY <1>3, <2>1 DEF RequestsOK, Ids
  <2>3. /\ IsFiniteSet(tracked')
        /\ Cardinality(Tracks(id))' = Cardinality(Tracks(id)) + 1
        /\ \A i : i # id => Tracks(i)' = Tracks(i)
        /\ \A i : Cardinality(Tracks(i)) \in Nat
    BY <1>1, <1>3, OneMoreTrack
  <2>4. \A i : Cardinality(Tracks(i)) <= Cardinality(Tracks(i))'
    BY <2>3
  <2>5. ASSUME NEW q \in Requests PROVE SessionOK(q)'
    <3>1. CASE q = r
      BY <1>3, <3>1 DEF SessionOK, Goto, TypeOK
    <3>2. CASE q # r
      <4>1. SessionOK(q) /\ pc'[q] = pc[q] /\ held'[q] = held[q]
        BY <1>3, <3>2 DEF RequestsOK, Goto, TypeOK, track
      <4>2. \A t \in tracked' : t \in tracked \/ t[1] = r
        BY <1>3
      <4>3. pc[q] = "tracking" =>
              held[q].download_count <= Cardinality(Tracks(held[q].id))'
        BY <2>3, <2>4, <4>1 DEF SessionOK, CvRequest
      <4> QED
        BY <2>2, <3>2, <4>1, <4>2, <4>3 DEF SessionOK
    <3> QED
      BY <3>1, <3>2
  <2>6. CountIsPlausible'
    <3>1. ASSUME NEW x \in cv_requests
          PROVE  LET n == Cardinality(Tracks(x.id))'
                 IN new(x).download_count <= n /\ (n > 0 => new(x).download_count > 0)
      <4>1. CASE x.id = id
        BY <1>1, <2>1, <2>3, <4>1 DEF RequestsOK
      <4>2. CASE x.id # id
        BY <2>1, <2>3, <4>2 DEF RequestsOK, CountIsPlausible
      <4> QED
        BY <4>1, <4>2
    <3>2. \A x \in cv_requests : new(x).id = x.id
      BY <2>1 DEF RequestsOK
    <3> QED
      BY <1>3, <3>1, <3>2 DEF CountIsPlausible
  <2>7. RequestsOK'
    <3>1. \A t \in tracked' : t[2] \in Ids(cv_requests)' /\ t \in Requests \X Requests
      BY <1>1, <1>3, <2>2 DEF RequestsOK
    <3>2. NothingPrecedesTheRequest'
      BY <2>2 DEF RequestsOK, NothingPrecedesTheRequest, track
    <3> QED
      BY <2>2, <2>3, <2>5, <2>6, <3>1, <3>2 DEF RequestsOK
  <2>8. inbox' \subseteq Requests /\ mailed' \subseteq Requests
    BY DEF TypeOK, track
  <2> QED
    BY <1>3, <2>7, <2>8, TableStep DEF track, Downloading
<1> QED
  BY <1>2, <1>3 DEF track, counted

LEMMA ServeKeeps ==
  ASSUME IInv, NEW r \in Requests, serve(r)
  PROVE  IInv'
<1>1. PICK step \in {"404", "done", "500"} : Goto(r, step)
  BY DEF serve
<1>2. SessionOK(r)'
  BY <1>1 DEF SessionOK, Goto, TypeOK, IInv
<1>3. held' \in [Requests -> Document \cup CvRequest \cup {None}] /\ held' = held
  BY DEF serve, IInv, TypeOK
<1> QED
  BY <1>1, <1>2, <1>3, RequestStep DEF serve, Ended

LEMMA DieKeeps ==
  ASSUME IInv, NEW r \in Requests, die(r)
  PROVE  IInv'
<1>1. SessionOK(r)'
  BY DEF die, SessionOK, Goto, TypeOK, IInv
<1>2. held' \in [Requests -> Document \cup CvRequest \cup {None}] /\ held' = held
  BY DEF die, IInv, TypeOK
<1> QED
  BY <1>1, <1>2, RequestStep DEF die, Ended

------------------------------------------------------------------------------
(* The theorems *)

LEMMA NextKeeps == IInv /\ [Next]_vars => IInv'
<1> SUFFICES ASSUME IInv, [Next]_vars PROVE IInv'
  OBVIOUS
<1>1. ASSUME NEW r \in Requests, NEW v \in Versions, NEW activate \in BOOLEAN,
             upload_cv(r, v, activate)
      PROVE  IInv'
  BY <1>1, UploadKeeps
<1>2. ASSUME NEW r \in Requests, acquire(r) PROVE IInv'
  BY <1>2, AcquireKeeps
<1>3. ASSUME NEW r \in Requests, commit_upload(r) PROVE IInv'
  BY <1>3, CommitUploadKeeps
<1>4. ASSUME NEW r \in Requests, request_cv(r) PROVE IInv'
  BY <1>4, RequestCvKeeps
<1>5. ASSUME NEW r \in Requests, save_request(r) PROVE IInv'
  BY <1>5, SaveRequestKeeps
<1>6. ASSUME NEW r \in Requests, index_request(r) PROVE IInv'
  <2>1. Goto(r, "indexed") /\ inbox' \subseteq inbox \cup {r}
    BY <1>6 DEF index_request, index_failed
  <2> QED
    BY <1>6, <2>1, EntryStep DEF index_request
<1>7. ASSUME NEW r \in Requests, answer_request(r) PROVE IInv'
  BY <1>7, AnswerKeeps
<1>8. ASSUME NEW r \in Requests, process_email_notifications(r) PROVE IInv'
  BY <1>8, EntryStep DEF process_email_notifications
<1>9. ASSUME NEW r \in Requests, NEW q \in Requests \cup {None}, download_cv(r, q) PROVE IInv'
  BY <1>9, DownloadKeeps
<1>10. ASSUME NEW r \in Requests, track(r) PROVE IInv'
  BY <1>10, TrackKeeps
<1>11. ASSUME NEW r \in Requests, serve(r) PROVE IInv'
  BY <1>11, ServeKeeps
<1>12. ASSUME NEW r \in Requests, die(r) PROVE IInv'
  BY <1>12, DieKeeps
<1>13. CASE UNCHANGED vars
  <2>1. \A id : Tracks(id)' = Tracks(id)
    BY <1>13 DEF vars, Tracks
  <2>2. TypeOK' /\ DocumentsOK'
    BY <1>13 DEF vars, IInv, TypeOK, DocumentsOK, Ids, UploadOK, NeverWithoutCv,
      OneDefaultUnlessRaced, Active
  <2>3. RequestsOK'
    BY <1>13, <2>1 DEF vars, IInv, RequestsOK, Ids, SessionOK, NothingPrecedesTheRequest,
      CountIsPlausible
  <2> QED
    BY <2>2, <2>3 DEF IInv
<1> QED
  BY <1>1, <1>2, <1>3, <1>4, <1>5, <1>6, <1>7, <1>8, <1>9, <1>10, <1>11, <1>12, <1>13
    DEF Next, Quiescent

LEMMA Invariance == Spec => []IInv
BY InitIInv, NextKeeps, PTL DEF Spec

\* Documents, CV requests, sessions and histories have their types in every
\* reachable state.
THEOREM TypeCorrect == Spec => []TypeOK
BY Invariance, PTL DEF IInv

\* What the run checks as Consistent: the types, counts that no overlap of downloads
\* drives ahead of the tracked ones or back to zero (download_cv), and no inbox entry
\* or e-mail without its saved request (request_cv).
THEOREM ConsistencyHolds == Spec => []Consistent
<1>1. IInv => Consistent
  BY DEF IInv, RequestsOK, Consistent
<1> QED
  BY <1>1, Invariance, PTL

\* Whatever uploads are refused, killed or raced, the public download always has a
\* CV (upload_cv).
THEOREM AlwaysACv == Spec => []NeverWithoutCv
<1>1. IInv => NeverWithoutCv
  BY DEF IInv, DocumentsOK
<1> QED
  BY <1>1, Invariance, PTL

\* Two default CVs are always those of two uploads neither of which saw the other's
\* row when its UPDATE began (upload_cv).
THEOREM TwoDefaultsRaced == Spec => []OneDefaultUnlessRaced
<1>1. IInv => OneDefaultUnlessRaced
  BY DEF IInv, DocumentsOK
<1> QED
  BY <1>1, Invariance, PTL
==============================================================================
