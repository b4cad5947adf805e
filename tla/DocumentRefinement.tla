-------------------------- MODULE DocumentRefinement --------------------------
(***************************************************************************)
(* DocumentLifecycle keeps the promise of DocumentSpec to every document.  *)
(***************************************************************************)
EXTENDS DocumentLifecycle

\* The promise about document d, read off the stores and the jobs.
Doc(d) == INSTANCE DocumentSpec WITH
  phase      <- status[d],
  message    <- d \in error,
  searchable <- d \in indexed,
  indexable  <- coll[d] = "slides" /\ HasText(d),
  unread     <- d \in unread,
  clearing   <- d \in purged,
  ingesting  <- \E k \in Slots : job[d][k] # Idle

\* With one retry request under way at a time, every document goes through
\* its life as promised: it fails with a message and no other way, becomes
\* ready only when it can be searched or its text could not be read, is
\* processed again only after a failure or a restart, and once deleted is
\* touched by nothing but an ingestion that was under way.
\* (\A d \in Docs : Doc(d)!Spec, with the quantifier inside the box.)
KeepsPromise ==
  /\ \A d \in Docs : Doc(d)!Init
  /\ [][\A d \in Docs : [Doc(d)!Next]_(Doc(d)!vars)]_vars
=============================================================================
