----------------------------- MODULE DocumentSpec -----------------------------
(***************************************************************************)
(* What a student is promised of one document, whatever stores, threads    *)
(* and restarts are behind it: it is processed, it becomes ready or fails  *)
(* with a message, a failed one can be retried, and a deleted one is gone. *)
(*                                                                         *)
(* Three things the promise does not include are part of it as steps of    *)
(* their own: an ingestion that finds no text in a document that has some  *)
(* (Extract), a deletion that stops half-way and leaves a document that    *)
(* cannot be searched (Clear), and an ingestion that was under way when    *)
(* its document was deleted and writes to the index once more              *)
(* (IndexChanges).                                                         *)
(***************************************************************************)

VARIABLES
  phase,       \* what the student sees of the document
  message,     \* an error message is shown with it
  searchable,  \* the index holds chunks of it
  indexable,   \* it is a slide deck with text; fixed when it is uploaded
  unread,      \* the last ingestion found no text in it, though it has some
  clearing,    \* its deletion was asked for
  ingesting    \* an ingestion of it is under way

vars == <<phase, message, searchable, indexable, unread, clearing, ingesting>>

Visible == phase \in {"processing", "ready", "failed"}

Init ==
  /\ phase = "unused" /\ message = FALSE /\ searchable = FALSE
  /\ indexable \in BOOLEAN /\ unread = FALSE /\ clearing = FALSE
  /\ ingesting = FALSE

\* An error of the database can leave it without an ingestion.
Upload ==
  /\ phase = "unused"
  /\ phase' = "processing" /\ ingesting' \in BOOLEAN
  /\ UNCHANGED <<message, searchable, indexable, unread, clearing>>

\* An upload that is refused or fails is never seen.
Refuse ==
  /\ phase = "unused"
  /\ phase' = "gone"
  /\ UNCHANGED <<message, searchable, indexable, unread, clearing, ingesting>>

\* An ingestion may miss the text, and may find it the next time.
Extract ==
  /\ ingesting /\ phase \in {"processing", "gone"}
  /\ unread' = ~unread
  /\ unread' => indexable
  /\ UNCHANGED <<phase, message, searchable, indexable, clearing, ingesting>>

\* Only an ingestion changes the index, while the document is processed or
\* after it was deleted, and it indexes only text it has found.
IndexChanges ==
  /\ ingesting /\ phase \in {"processing", "gone"}
  /\ searchable' = ~searchable
  /\ searchable' => indexable /\ ~unread
  /\ UNCHANGED <<phase, message, indexable, unread, clearing, ingesting>>

Succeed ==
  /\ phase = "processing" /\ ingesting
  /\ indexable => searchable \/ clearing \/ unread
  /\ phase' = "ready" /\ ingesting' = FALSE
  /\ UNCHANGED <<message, searchable, indexable, unread, clearing>>

Fail ==
  /\ phase = "processing" /\ ingesting
  /\ phase' = "failed" /\ message' = TRUE /\ ingesting' = FALSE
  /\ UNCHANGED <<searchable, indexable, unread, clearing>>

Retry ==
  /\ phase = "failed" /\ ~ingesting
  /\ phase' = "processing" /\ message' = FALSE /\ ingesting' \in BOOLEAN
  /\ UNCHANGED <<searchable, indexable, unread, clearing>>

\* An ingestion is cut short by a stop of the process or an error of the
\* database, or finds its document gone; one that was cut short is taken up
\* again.
Abandon ==
  /\ ingesting
  /\ ingesting' = FALSE
  /\ UNCHANGED <<phase, message, searchable, indexable, unread, clearing>>

Resume ==
  /\ phase = "processing" /\ ~ingesting
  /\ ingesting' = TRUE
  /\ UNCHANGED <<phase, message, searchable, indexable, unread, clearing>>

Clear ==
  /\ Visible
  /\ clearing' = TRUE /\ searchable' \in {searchable, FALSE}
  /\ UNCHANGED <<phase, message, indexable, unread, ingesting>>

\* With the document, or with its course.
Delete ==
  /\ Visible
  /\ phase' = "gone" /\ message' = FALSE
  /\ UNCHANGED <<searchable, indexable, unread, clearing, ingesting>>

Next ==
  \/ Upload \/ Refuse \/ Extract \/ IndexChanges \/ Succeed \/ Fail
  \/ Retry \/ Abandon \/ Resume \/ Clear \/ Delete

Spec == Init /\ [][Next]_vars
=============================================================================
