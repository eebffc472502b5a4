-------------------------------- MODULE CvDesk --------------------------------
(***************************************************************************)
(* The CV: its uploaded versions, one of which is the public download, the *)
(* recruiters' requests for it and their tracked downloads                 *)
(* (backend/app/api/admin_cv.py, backend/app/api/cv.py).                   *)
(*                                                                         *)
(* A request is used once, and names the rows it inserts.  The locking of  *)
(* an upload's UPDATE is as in ProfileVersions.                            *)
(***************************************************************************)
EXTENDS Integers, FiniteSets

CONSTANTS
  Versions,    \* version labels an admin may choose
  Requests,    \* HTTP requests (TLC's bound on their number)
  Fallback,    \* the row and the label the first start seeds
  None

ASSUME NameAssumption == Fallback \notin Versions \cup Requests /\ None \notin Requests

VARIABLES
  documents,    \* committed cv_documents rows: [id, version, is_active]
  cv_requests,  \* committed cv_requests rows: [id, version, download_count]
  inbox,        \* source_refs of the committed interactions rows
  mailed,       \* CV requests whose e-mails went out
  pc,           \* where each request's handler is
  held,         \* what its session holds: an upload's row, a CvRequest's row
  snap,         \* ids of the documents an upload's UPDATE addresses
  tracked       \* history: <<download, CV request>> whose count was committed

vars == <<documents, cv_requests, inbox, mailed, pc, held, snap, tracked>>

Document == [id : Requests \cup {Fallback}, version : Versions \cup {Fallback},
             is_active : BOOLEAN]
CvRequest == [id : Requests, version : Versions \cup {Fallback}, download_count : Nat]

Uploading == {"updating", "locked"}
Requesting == {"accepted", "saved", "indexed"}
Downloading == {"tracking", "serving"}
Ended == {"done", "404", "500", "dead"}

TypeOK ==
  /\ documents \subseteq Document
  /\ cv_requests \subseteq CvRequest
  /\ inbox \subseteq Requests
  /\ mailed \subseteq Requests
  /\ pc \in [Requests -> {"idle", "answered"} \cup Uploading \cup Requesting
                           \cup Downloading \cup Ended]
  /\ held \in [Requests -> Document \cup CvRequest \cup {None}]
  /\ snap \in [Requests -> SUBSET (Requests \cup {Fallback})]
  /\ tracked \subseteq Requests \X Requests

\* The lifespan hook seeds the fallback CV before the first request is served.
Init ==
  /\ documents = {[id |-> Fallback, version |-> Fallback, is_active |-> TRUE]}
  /\ cv_requests = {}
  /\ inbox = {}
  /\ mailed = {}
  /\ pc = [r \in Requests |-> "idle"]
  /\ held = [r \in Requests |-> None]
  /\ snap = [r \in Requests |-> {}]
  /\ tracked = {}

------------------------------------------------------------------------------
Goto(r, step) == pc' = [pc EXCEPT ![r] = step]
Hold(r, row) == held' = [held EXCEPT ![r] = row]

Active == {d \in documents : d.is_active}
Ids(rows) == {x.id : x \in rows}

(* Uploads *)

\* The documents an upload deactivates: all of them, or none for a variant.
addressed(activate) == IF activate THEN Ids(documents) ELSE {}

\* upload_cv begins its UPDATE, if any.
upload_cv(r, v, activate) ==
  /\ pc[r] = "idle"
  /\ Hold(r, [id |-> r, version |-> v, is_active |-> activate])
  /\ snap' = [snap EXCEPT ![r] = addressed(activate)]
  /\ Goto(r, "updating")
  /\ UNCHANGED <<documents, cv_requests, inbox, mailed, tracked>>

\* Its UPDATE has got the rows from whoever updated them before.
acquire(r) ==
  /\ pc[r] = "updating"
  /\ \A q \in Requests \ {r} : pc[q] = "locked" => snap[q] \cap snap[r] = {}
  /\ Goto(r, "locked")
  /\ UNCHANGED <<documents, cv_requests, inbox, mailed, held, snap, tracked>>

\* Mutant of committed: a refused upload has already switched the default off.
committed_twice(row, off) ==
  {IF d.id \in off THEN [d EXCEPT !.is_active = FALSE] ELSE d : d \in documents}
    \cup (IF \E d \in documents : d.version = row.version THEN {} ELSE {row})

\* Mutant of committed: the UPDATE takes along no document but the fallback.
committed_fallback_only(row, off) ==
  IF \E d \in documents : d.version = row.version THEN documents
  ELSE {IF d.id \in off /\ d.id = Fallback THEN [d EXCEPT !.is_active = FALSE] ELSE d :
          d \in documents} \cup {row}

\* The table after an upload's commit; a label that is taken undoes all of it.
committed(row, off) ==
  IF \E d \in documents : d.version = row.version THEN documents
  ELSE {IF d.id \in off THEN [d EXCEPT !.is_active = FALSE] ELSE d : d \in documents}
         \cup {row}

\* The insert and the commit of an upload.
commit_upload(r) ==
  /\ pc[r] = "locked"
  /\ documents' = committed(held[r], snap[r])
  /\ Goto(r, IF held[r] \in documents' THEN "done" ELSE "500")
  /\ UNCHANGED <<cv_requests, inbox, mailed, held, snap, tracked>>

------------------------------------------------------------------------------
(* Requests for the CV *)

\* The row of an accepted request names the version that is active by now.
requested(r, d) == [id |-> r, version |-> d.version, download_count |-> 0]

\* request_cv looks for the one active document: 404 without one; with two, the
\* lookup raises.
request_cv(r) ==
  /\ pc[r] = "idle"
  /\ \/ Active = {} /\ Goto(r, "404") /\ UNCHANGED held
     \/ Cardinality(Active) > 1 /\ Goto(r, "500") /\ UNCHANGED held
     \/ /\ Cardinality(Active) = 1
        /\ \E d \in Active : Hold(r, requested(r, d))
        /\ Goto(r, "accepted")
  /\ UNCHANGED <<documents, cv_requests, inbox, mailed, snap, tracked>>

\* Mutant of save_request: a flush, which the second commit has to make durable.
save_by_flush(r) ==
  /\ pc[r] = "accepted"
  /\ Goto(r, "saved")
  /\ UNCHANGED <<documents, cv_requests, inbox, mailed, held, snap, tracked>>

\* The first commit: the request itself.
save_request(r) ==
  /\ pc[r] = "accepted"
  /\ cv_requests' = cv_requests \cup {held[r]}
  /\ Goto(r, "saved")
  /\ UNCHANGED <<documents, inbox, mailed, held, snap, tracked>>

\* The index row does not fit (its columns are shorter than the request's), or the
\* database fails: the flow goes on without it.
index_failed(r) == Goto(r, "indexed")

\* The second commit: the request's row in the inbox.
index_request(r) ==
  /\ pc[r] = "saved"
  /\ \/ Goto(r, "indexed") /\ inbox' = inbox \cup {r}
     \/ index_failed(r) /\ UNCHANGED inbox
  /\ UNCHANGED <<documents, cv_requests, mailed, held, snap, tracked>>

\* The answer carries the download link; the e-mails are queued behind it.
answer_request(r) ==
  /\ pc[r] = "indexed"
  /\ Goto(r, "answered")
  /\ UNCHANGED <<documents, cv_requests, inbox, mailed, held, snap, tracked>>

process_email_notifications(r) ==
  /\ pc[r] = "answered"
  /\ mailed' = mailed \cup {r}
  /\ Goto(r, "done")
  /\ UNCHANGED <<documents, cv_requests, inbox, held, snap, tracked>>

------------------------------------------------------------------------------
(* Downloads *)

\* download_cv with the id of a request, or with none or one that is not there.
download_cv(r, q) ==
  /\ pc[r] = "idle"
  /\ \/ q \notin Ids(cv_requests) /\ Goto(r, "serving") /\ UNCHANGED held
     \/ \E x \in cv_requests : x.id = q /\ Hold(r, x) /\ Goto(r, "tracking")
  /\ UNCHANGED <<documents, cv_requests, inbox, mailed, snap, tracked>>

\* Mutant of counted: the database adds what the session has already incremented.
counted_onto(current, read) == current + read + 1

\* The count is incremented in the session: on the value that was read.
counted(current, read) == read + 1

\* The tracking commit; when it fails it leaves the session unusable, and the
\* lookup that follows raises.
track(r) ==
  /\ pc[r] = "tracking"
  /\ \/ /\ Goto(r, "serving")
        /\ cv_requests' =
             {IF x.id = held[r].id
                THEN [x EXCEPT !.download_count = counted(@, held[r].download_count)]
                ELSE x : x \in cv_requests}
        /\ tracked' = tracked \cup {<<r, held[r].id>>}
     \/ Goto(r, "500") /\ UNCHANGED <<cv_requests, tracked>>
  /\ UNCHANGED <<documents, inbox, mailed, held, snap>>

serve(r) ==
  /\ pc[r] = "serving"
  /\ Goto(r, IF Active = {} THEN "404"
             ELSE IF Cardinality(Active) = 1 THEN "done" ELSE "500")
  /\ UNCHANGED <<documents, cv_requests, inbox, mailed, held, snap, tracked>>

------------------------------------------------------------------------------
\* The process dies under a request: uncommitted changes and queued e-mails go.
die(r) ==
  /\ pc[r] \notin Ended \cup {"idle"}
  /\ Goto(r, "dead")
  /\ UNCHANGED <<documents, cv_requests, inbox, mailed, held, snap, tracked>>

Quiescent ==
  /\ \A r \in Requests : pc[r] \in Ended
  /\ UNCHANGED vars

Next ==
  \/ \E r \in Requests :
       \/ \E v \in Versions, activate \in BOOLEAN : upload_cv(r, v, activate)
       \/ acquire(r) \/ commit_upload(r)
       \/ request_cv(r) \/ save_request(r) \/ index_request(r) \/ answer_request(r)
       \/ process_email_notifications(r)
       \/ \E q \in Requests \cup {None} : download_cv(r, q)
       \/ track(r) \/ serve(r)
       \/ die(r)
  \/ Quiescent

Spec == Init /\ [][Next]_vars

------------------------------------------------------------------------------
(* Properties *)

\* The public download never disappears: the fallback CV is there from the first
\* start, and an upload, refused, killed or raced, switches it off only in the
\* commit that switches its own document on (upload_cv).
NeverWithoutCv == Active # {}

\* An inbox entry and an e-mail always lead back to a saved request, even when
\* the process died between the two commits (request_cv).
NothingPrecedesTheRequest == inbox \cup mailed \subseteq Ids(cv_requests)

\* Downloads tracked for a CV request.
Tracks(id) == {t \in tracked : t[2] = id}

\* A download count never runs ahead of the downloads that were tracked, and once
\* one is tracked it stays positive, however many overlap (download_cv).
CountIsPlausible ==
  \A x \in cv_requests :
    LET n == Cardinality(Tracks(x.id))
    IN x.download_count <= n /\ (n > 0 => x.download_count > 0)

\* Rows and requests are what they should be, so are the counters, and nothing that
\* follows a request is there without it.
Consistent == TypeOK /\ CountIsPlausible /\ NothingPrecedesTheRequest

\* Two default CVs (requests and downloads then answer 500) need two activating
\* uploads neither of which could see the other's row when its UPDATE began; the
\* fallback, a variant or a refused label never makes a second one (upload_cv).
OneDefaultUnlessRaced ==
  \A x, y \in Active : x # y =>
    /\ {x.id, y.id} \subseteq Requests
    /\ x.id \notin snap[y.id] /\ y.id \notin snap[x.id]
==============================================================================
